---------------------------- MODULE Spec2Model ----------------------------
(***************************************************************************)
(* Model of the gNOI File handlers of sonic-gnmi (package file):           *)
(*   validatePath / translatePathForContainer   (path security)            *)
(*   HandlePut                                  (chunked upload receiver)  *)
(*   HandleTransferToRemote, handleTransferToRemoteLocal,                  *)
(*   HandleTransferToRemoteForDPUStreaming      (local fetch / DPU proxy)  *)
(* and of package dpuproxy: DPUResolver, the connection cache, singleton.  *)
(*                                                                         *)
(* A string is a sequence of tokens.  The tokens "/" and "." are the two   *)
(* characters the path code inspects; every other token ("a", "tmp",       *)
(* "var", "mnt", "host") is a block of ordinary characters.  No token is   *)
(* a prefix of another, so prefix and substring tests on token sequences   *)
(* agree with the tests on the strings they spell.                         *)
(***************************************************************************)
EXTENDS Integers, Sequences, FiniteSets, TLC

VARIABLES
    vpath,      \* validatePath: the raw path handed in
    vresult,    \* validatePath: the error returned ("none" before the call)
    mntHost,    \* TRUE when /mnt/host exists (the handlers run in a container)
    dir,        \* the device's directory: path |-> inode, for the paths that exist
    ino,        \* inode |-> [data, mode]
    dir0,       \* the directory as it was before any request ran
    ino0,       \* the inodes as they were before any request ran
    clientMsgs, \* what stream.Recv() may return to a Put request of this run
    ioOutcomes, \* the outcomes a system call of this run may have (TRUE: success)
    pc,         \* HandlePut, per request: where the handler stands
    result,     \* HandlePut: the status code returned ("none" while running)
    rcvd,       \* HandlePut: everything stream.Recv() has returned so far
    perm,       \* HandlePut: permissions
    dpath,      \* HandlePut: translatedPath
    tpath,      \* HandlePut: tempPath
    fd,         \* HandlePut: f, as [open, ino, off]
    hashed,     \* HandlePut: the bytes written into hasher
    pmd,        \* HandlePut, per request: the incoming metadata of the stream's context
    pdial,      \* HandlePut, per request: the DPUs it asked a connection for
    netOutcomes,\* the outcomes a network call of this run may have (TRUE: success)
    xreq,       \* TransferToRemote: req
    xmd,        \* TransferToRemote: the incoming metadata, [type, index]
    xpc,        \* TransferToRemote: where the handler stands
    xhandler,   \* TransferToRemote: the handler HandleTransferToRemote called
    xresult,    \* TransferToRemote: the status code returned ("none" while running)
    xhash,      \* TransferToRemote: the digest in the response
    xio,        \* TransferToRemote: the I/O calls made so far, in order
    src,        \* the bytes the remote source serves
    srcPos,     \* how many of them have been read
    buf,        \* streaming proxy: buffer[:n] of the last Read
    rerr,       \* streaming proxy: err of the last Read
    phash,      \* streaming proxy: the bytes written into hashCalc
    reads,      \* streaming proxy: the non-empty chunks Read has returned
    sent,       \* streaming proxy: the messages sent on the Put stream
    sendClosed, \* streaming proxy: the send side of the Put stream is closed
    expired,    \* streaming proxy: streamCtx is done
    rcvIdx,     \* how many messages of sent the peer's HandlePut has received
    connErr,    \* streaming proxy: err of dpuproxy.GetDPUConnection ("none" before the call)
    defaultProxy, \* dpuproxy: the singleton ("nil", "noResolver" or "proxy")
    stateDB,    \* dpuproxy: the state table, per DPU
    configDB,   \* dpuproxy: the configuration table, per DPU
    conns,      \* dpuproxy: the cached connection handle, per DPU (NoConn: none)
    dials,      \* dpuproxy: the dials performed so far, per DPU
    connMu,     \* dpuproxy: who holds the lock, per lock
    gpc,        \* GetDPUConnection, per caller: where the call stands
    gid,        \* GetDPUConnection: the caller's DPU identifier
    gsaw,       \* GetDPUConnection: the value of defaultProxy the call read
    ginfo,      \* GetDPUConnection: what the resolver answered
    gconn,      \* GetDPUConnection: the connection returned
    gerr,       \* GetDPUConnection: the error returned ("none" while running)
    gio,        \* GetDPUConnection: the resolves and dials the call made
    rmpc,       \* HandleFileRemove: where the handler stands
    rmreq,      \* HandleFileRemove: req
    rmerr,      \* HandleFileRemove: err of os.Remove ("none" when it was not called)
    rmresult,   \* HandleFileRemove: the status code returned
    rmio,       \* HandleFileRemove: the paths handed to os.Remove
    amethod,    \* auth: info.FullMethod
    aparsed,    \* auth: what parseMethod returned for it ("none" before)
    apeer,      \* auth: the roles of the peer's certificate CN (NoCert: no certificate)
    apc,        \* auth: where the interceptor stands
    acheck,     \* auth: the CheckAccess call made (NoCheck: none)
    ahandler,   \* auth: how many times the RPC handler was invoked
    aret,       \* auth: the error the interceptor returned ("none" while running)
    xclosed,    \* streaming proxy: the deferred calls run at its return
    closedConns \* the connections of the cache that were closed

pathVars == <<vpath, vresult>>
fsVars == <<dir, ino>>
envVars == <<mntHost, clientMsgs, ioOutcomes, dir0, ino0, pmd>>
reqVars == <<pc, result, rcvd, perm, dpath, tpath, fd, hashed, pdial>>
putVars == <<envVars, fsVars, reqVars>>
xferVars == <<netOutcomes, xreq, xmd, xpc, xhandler, xresult, xhash, xio, src, srcPos,
              buf, rerr, phash, reads, sent, sendClosed, expired, rcvIdx, connErr>>
cacheVars == <<defaultProxy, stateDB, configDB, conns, dials, connMu, gpc, gid, gsaw, ginfo,
               gconn, gerr, gio>>
rmVars == <<rmpc, rmreq, rmerr, rmresult, rmio>>
authVars == <<amethod, aparsed, apeer, apc, acheck, ahandler, aret>>
connVars == <<xclosed, closedConns>>
miscVars == <<rmVars, authVars, connVars>>
vars == <<pathVars, putVars, xferVars, cacheVars, miscVars>>

-----------------------------------------------------------------------------
(* Bounds *)

MaxPathLen == 6
MaxChunk == 1       \* bytes in one Contents message
MaxFile == 2        \* bytes in one stream
MaxContents == 2    \* Contents messages in one stream
MaxParts == 3       \* "/"-separated parts of a method name
MaxRoles == 2       \* roles of one certificate

-----------------------------------------------------------------------------
(* Strings *)

Tokens == {"/", ".", "a", "tmp", "var"}

RECURSIVE SeqsUpTo(_, _)
SeqsUpTo(S, n) ==
    IF n = 0 THEN {<<>>}
    ELSE LET shorter == SeqsUpTo(S, n - 1)
         IN  shorter \cup {Append(s, x) : s \in {t \in shorter : Len(t) = n - 1}, x \in S}

HasPrefix(s, p) ==
    Len(s) >= Len(p) /\ SubSeq(s, 1, Len(p)) = p

Contains(s, sub) ==
    \E i \in 1..(Len(s) - Len(sub) + 1) : SubSeq(s, i, i + Len(sub) - 1) = sub

DotDot == <<".", ".">>

\* The "/"-separated elements of s, empty ones included.
RECURSIVE Split(_)
Split(s) ==
    IF s = <<>> THEN << <<>> >>
    ELSE LET rest == Split(Tail(s))
         IN  IF Head(s) = "/" THEN << <<>> >> \o rest
             ELSE << <<Head(s)>> \o Head(rest) >> \o Tail(rest)

RECURSIVE Join(_)
Join(segs) ==
    IF segs = <<>> THEN <<>>
    ELSE IF Len(segs) = 1 THEN segs[1]
    ELSE segs[1] \o <<"/">> \o Join(Tail(segs))

\* filepath.Clean's element loop: out is the stack of elements kept so far.
RECURSIVE CleanElems(_, _, _)
CleanElems(segs, rooted, out) ==
    IF segs = <<>> THEN out
    ELSE LET e == Head(segs)
             next == IF e = <<>> \/ e = <<".">> THEN out
                     ELSE IF e = DotDot
                          THEN IF Len(out) > 0 /\ out[Len(out)] # DotDot
                               THEN SubSeq(out, 1, Len(out) - 1)
                               ELSE IF ~rooted THEN Append(out, DotDot) ELSE out
                     ELSE Append(out, e)
         IN  CleanElems(Tail(segs), rooted, next)

\* filepath.Clean on a Unix path.
Clean(s) ==
    IF s = <<>> THEN <<".">>
    ELSE LET rooted == s[1] = "/"
             out == CleanElems(Split(s), rooted, <<>>)
         IN  IF rooted THEN <<"/">> \o Join(out)
             ELSE IF out = <<>> THEN <<".">> ELSE Join(out)

IsAbs(s) == HasPrefix(s, <<"/">>)

-----------------------------------------------------------------------------
(* validatePath, translatePathForContainer *)

allowedPrefixes == << <<"/", "tmp", "/">>, <<"/", "var", "/", "tmp", "/">> >>

\* The substring test of validatePath on the cleaned path.
HasTraversal(cleanPath) == Contains(cleanPath, DotDot)

\* The error validatePath returns; "nil" when the path is accepted.
validatePath(path) ==
    LET cleanPath == Clean(path)
    IN  IF ~IsAbs(cleanPath) THEN "path must be absolute"
        ELSE IF HasTraversal(cleanPath) THEN "path traversal not allowed"
        ELSE IF \E i \in DOMAIN allowedPrefixes : HasPrefix(cleanPath, allowedPrefixes[i])
             THEN "nil"
        ELSE "path must be under /tmp/ or /var/tmp/"

\* translatePathForContainer: the cleaned path, under /mnt/host in a container.
translatePathForContainer(path) ==
    LET cleanPath == Clean(path)
    IN  IF mntHost THEN <<"/", "mnt", "/", "host">> \o cleanPath ELSE cleanPath

-----------------------------------------------------------------------------
(* The filesystem: a directory of names and the inodes they name.  An open *)
(* file descriptor keeps addressing its inode whatever happens to the name.*)

NoPath == <<>>
DefaultMode == 420      \* 0644
OtherMode == DefaultMode - 36   \* 0600, a non-default mode a client may ask for

Exists(d, path) == path \in DOMAIN d

Unlink(d, path) == [p \in (DOMAIN d) \ {path} |-> d[p]]

\* os.OpenFile(path, O_CREATE|O_WRONLY|O_TRUNC, 0644): an existing file is
\* truncated in place, a missing one is created as inode newIno.
OpenTruncDir(d, path, newIno) ==
    IF Exists(d, path) THEN d ELSE (path :> newIno) @@ d

OpenTruncIno(d, i, path, newIno) ==
    IF Exists(d, path)
    THEN [i EXCEPT ![d[path]].data = <<>>]
    ELSE (newIno :> [data |-> <<>>, mode |-> DefaultMode]) @@ i

OpenTruncFd(d, path, newIno) ==
    [open |-> TRUE, ino |-> IF Exists(d, path) THEN d[path] ELSE newIno, off |-> 0]

\* write(2) of bytes at offset off: overwrites, and fills a hole with zeros.
WriteAt(data, off, bytes) ==
    LET end == off + Len(bytes)
        n == IF Len(data) > end THEN Len(data) ELSE end
    IN  [k \in 1..n |->
            IF k > off /\ k <= end THEN bytes[k - off]
            ELSE IF k <= Len(data) THEN data[k] ELSE 0]

\* os.Rename(old, new): new names old's inode, old is gone.
RenameDir(d, old, new) ==
    (new :> d[old]) @@ Unlink(d, old)

-----------------------------------------------------------------------------
(* crypto/md5 *)

Bytes == {0, 1}

\* The digest of a byte sequence: a number that determines the sequence
\* (MD5 taken as collision-free on the bounded inputs).
RECURSIVE Digest(_)
Digest(s) ==
    IF s = <<>> THEN 0
    ELSE 3 * Digest(SubSeq(s, 1, Len(s) - 1)) + s[Len(s)] + 1

\* A wrong comparison: every received hash passes.
HashEqualAlways(calculatedHash, receivedHash) == TRUE

\* A wrong hasher update: the chunk is not folded in.
HasherWriteDrops(h, data) == h

\* hasher.Write(contents): the hasher's state is the bytes it was fed.
HasherWrite(h, data) == h \o data

\* bytes.Equal(calculatedHash, receivedHash)
HashEqual(calculatedHash, receivedHash) == calculatedHash = receivedHash

-----------------------------------------------------------------------------
(* HandlePut *)

Reqs == {1, 2}

NoFd == [open |-> FALSE, ino |-> 0, off |-> 0]

RecvErrors == {"EOF", "Canceled", "RecvErr"}

\* What stream.Recv() can return: a message of the oneof, a message with no
\* field set, or an error.
ContentMsgs == {[kind |-> "Contents", data |-> b] : b \in SeqsUpTo(Bytes, MaxChunk)}
HashMsgs == {[kind |-> "Hash", hash |-> Digest(b)] : b \in SeqsUpTo(Bytes, MaxFile)}
OtherMsgs == {[kind |-> k] : k \in RecvErrors \cup {"Unset"}}

\* A wrong cleanup: the temp file is left behind.
CleanupDirKeeps(d, tempPath) == d

\* The deferred function of HandlePut: f.Close(), then os.Remove(tempPath) when
\* os.Stat finds it.
CleanupDir(d, tempPath) ==
    IF Exists(d, tempPath) THEN Unlink(d, tempPath) ELSE d

\* The permissions HandlePut applies: 0644 when Open carries none.
EffectivePermissions(p) == IF p = 0 THEN DefaultMode ELSE p

\* A receiver that writes into the destination itself.
TempPathIsDestination(translatedPath) == translatedPath

\* tempPath
TempPath(translatedPath) == translatedPath \o <<".", "tmp">>

\* A return with an error after the temp file was opened: the status code,
\* and the deferred cleanup.
PutFail(r, code) ==
    /\ pc' = [pc EXCEPT ![r] = "Failed"]
    /\ result' = [result EXCEPT ![r] = code]
    /\ fd' = [fd EXCEPT ![r].open = FALSE]
    /\ dir' = CleanupDir(dir, tpath[r])

\* A wrong early return: the temp file of /tmp/a was created before the check.
PutRejectAfterCreate(r, code) ==
    LET tempPath == TempPath(translatePathForContainer(<<"/", "tmp", "/", "a">>))
    IN  /\ pc' = [pc EXCEPT ![r] = "Failed"]
        /\ result' = [result EXCEPT ![r] = code]
        /\ dir' = OpenTruncDir(dir, tempPath, r)
        /\ ino' = OpenTruncIno(dir, ino, tempPath, r)
        /\ UNCHANGED <<perm, dpath, tpath, fd, hashed>>

\* A return with an error before the temp file was opened.
PutReject(r, code) ==
    /\ pc' = [pc EXCEPT ![r] = "Failed"]
    /\ result' = [result EXCEPT ![r] = code]
    /\ UNCHANGED <<fsVars, perm, dpath, tpath, fd, hashed>>

\* Checks on the first message that leave the path unvalidated.
OpenCheckNoValidation(m) ==
    IF m.kind \in RecvErrors THEN "Internal"
    ELSE IF m.kind # "Open" THEN "InvalidArgument"
    ELSE IF m.path = NoPath THEN "InvalidArgument"
    ELSE "nil"

\* The checks on what the first Recv returns: the status code of the error
\* return, "nil" when the message is an Open with an allowed path.
OpenCheck(m) ==
    IF m.kind \in RecvErrors THEN "Internal"
    ELSE IF m.kind # "Open" THEN "InvalidArgument"
    ELSE IF m.path = NoPath THEN "InvalidArgument"
    ELSE IF validatePath(m.path) # "nil" THEN "InvalidArgument"
    ELSE "nil"

\* Step 0's test on the first values of x-sonic-ss-target-type and
\* x-sonic-ss-target-index.
PutDpuRouting(md) == md.present /\ md.type = "dpu" /\ md.index # ""

\* A DPU branch that asks for a connection to the DPU named.
PutDpuLogicDials(md) == {md.index}

\* The DPU connections the branch for DPU headers asks for: it writes a log
\* line and goes on with "the same logic".
PutDpuLogic(md) == {}

\* Step 0, for a stream whose context carries md.
PutStep0(r, md) ==
    pdial' = [pdial EXCEPT ![r] = IF PutDpuRouting(md) THEN PutDpuLogic(md) ELSE {}]

\* Steps 1-4: the first Recv, the checks on Open, the temp file.
\* m is what Recv returns, ok whether os.OpenFile succeeds.
PutRecvOpen(r, m, ok) ==
    /\ pc[r] = "AwaitOpen"
    /\ rcvd' = [rcvd EXCEPT ![r] = Append(@, m)]
    /\ IF OpenCheck(m) # "nil" THEN PutReject(r, OpenCheck(m))
       ELSE IF ~ok THEN PutReject(r, "Internal")
       ELSE LET translatedPath == translatePathForContainer(m.path)
                tempPath == TempPath(translatedPath)
            IN  /\ pc' = [pc EXCEPT ![r] = "Receiving"]
                /\ perm' = [perm EXCEPT ![r] = EffectivePermissions(m.perm)]
                /\ dpath' = [dpath EXCEPT ![r] = translatedPath]
                /\ tpath' = [tpath EXCEPT ![r] = tempPath]
                /\ dir' = OpenTruncDir(dir, tempPath, r)
                /\ ino' = OpenTruncIno(dir, ino, tempPath, r)
                /\ fd' = [fd EXCEPT ![r] = OpenTruncFd(dir, tempPath, r)]
                /\ UNCHANGED <<result, hashed>>
    /\ UNCHANGED envVars

\* HandlePut from its entry to the temp file, for a stream whose context
\* carries md.
PutEnter(r, md, m, ok) == PutStep0(r, md) /\ PutRecvOpen(r, m, ok)

\* A wrong leaving of the receive loop: end-of-input taken as the end of the file.
PutRecvFailedEofIsSuccess(r, err) ==
    IF err = "EOF"
    THEN pc' = [pc EXCEPT ![r] = "Close"] /\ UNCHANGED <<result, fd, dir>>
    ELSE PutFail(r, IF err = "Canceled" THEN "Canceled" ELSE "Internal")

\* The receive loop's `if err != nil`: io.EOF before a hash, a cancelled
\* stream, any other receive error.
PutRecvFailed(r, err) ==
    PutFail(r, IF err = "EOF" THEN "InvalidArgument"
               ELSE IF err = "Canceled" THEN "Canceled"
               ELSE "Internal")

\* A loop that skips a message it does not know.
PutUnknownMessageIgnored(r) == UNCHANGED <<pc, result, fd, dir>>

\* The loop's last branch: the message holds neither contents nor hash.
PutUnknownMessage(r) == PutFail(r, "InvalidArgument")

\* Steps 5-6: one iteration of the receive loop.
\* m is what Recv returns, ok whether f.Write succeeds.
PutRecvNext(r, m, ok) ==
    /\ pc[r] = "Receiving"
    /\ m.kind = "Contents" =>
          /\ Len(hashed[r]) + Len(m.data) <= MaxFile
          /\ Len(rcvd[r]) <= MaxContents
    /\ rcvd' = [rcvd EXCEPT ![r] = Append(@, m)]
    /\ IF m.kind \in RecvErrors THEN PutRecvFailed(r, m.kind) /\ UNCHANGED <<ino, hashed>>
       ELSE IF m.kind = "Contents"
            THEN IF ok
                 THEN /\ ino' = [ino EXCEPT ![fd[r].ino].data = WriteAt(@, fd[r].off, m.data)]
                      /\ fd' = [fd EXCEPT ![r].off = @ + Len(m.data)]
                      /\ hashed' = [hashed EXCEPT ![r] = HasherWrite(@, m.data)]
                      /\ UNCHANGED <<pc, result, dir>>
                 ELSE PutFail(r, "Internal") /\ UNCHANGED <<ino, hashed>>
       ELSE IF m.kind = "Hash"
            THEN IF HashEqual(Digest(hashed[r]), m.hash)
                 THEN /\ pc' = [pc EXCEPT ![r] = "Close"]
                      /\ UNCHANGED <<result, fd, fsVars, hashed>>
                 ELSE PutFail(r, "DataLoss") /\ UNCHANGED <<ino, hashed>>
       ELSE PutUnknownMessage(r) /\ UNCHANGED <<ino, hashed>>
    /\ UNCHANGED <<envVars, pdial, perm, dpath, tpath>>

\* Step 7: f.Close(); the descriptor is closed whether or not Close reports
\* an error.
PutClose(r, ok) ==
    /\ pc[r] = "Close"
    /\ IF ok
       THEN /\ pc' = [pc EXCEPT ![r] = "Chmod"]
            /\ fd' = [fd EXCEPT ![r].open = FALSE]
            /\ UNCHANGED <<result, dir>>
       ELSE PutFail(r, "Internal")
    /\ UNCHANGED <<envVars, pdial, ino, rcvd, perm, dpath, tpath, hashed>>

\* A step 8 that leaves the permission bits as os.OpenFile set them.
PutChmodSkipped(r, ok) ==
    /\ pc[r] = "Chmod"
    /\ IF ok /\ Exists(dir, tpath[r])
       THEN /\ pc' = [pc EXCEPT ![r] = "Rename"]
            /\ UNCHANGED <<result, fd, dir, ino>>
       ELSE PutFail(r, "Internal") /\ UNCHANGED ino
    /\ UNCHANGED <<envVars, pdial, rcvd, perm, dpath, tpath, hashed>>

\* Step 8: os.Chmod(tempPath, permissions); fails when the name is gone.
PutChmod(r, ok) ==
    /\ pc[r] = "Chmod"
    /\ IF ok /\ Exists(dir, tpath[r])
       THEN /\ pc' = [pc EXCEPT ![r] = "Rename"]
            /\ ino' = [ino EXCEPT ![dir[tpath[r]]].mode = perm[r]]
            /\ UNCHANGED <<result, fd, dir>>
       ELSE PutFail(r, "Internal") /\ UNCHANGED ino
    /\ UNCHANGED <<envVars, pdial, rcvd, perm, dpath, tpath, hashed>>

\* Step 9: os.Rename(tempPath, translatedPath); fails when the name is gone.
PutRename(r, ok) ==
    /\ pc[r] = "Rename"
    /\ IF ok /\ Exists(dir, tpath[r])
       THEN /\ pc' = [pc EXCEPT ![r] = "Ack"]
            /\ dir' = RenameDir(dir, tpath[r], dpath[r])
            /\ UNCHANGED <<result, fd>>
       ELSE PutFail(r, "Internal")
    /\ UNCHANGED <<envVars, pdial, ino, rcvd, perm, dpath, tpath, hashed>>

\* Step 10: stream.SendAndClose, whose error is returned as it is; then the
\* deferred function runs.
PutSendAndClose(r, ok) ==
    /\ pc[r] = "Ack"
    /\ pc' = [pc EXCEPT ![r] = IF ok THEN "Done" ELSE "Failed"]
    /\ result' = [result EXCEPT ![r] = IF ok THEN "OK" ELSE "SendError"]
    /\ fd' = [fd EXCEPT ![r].open = FALSE]
    /\ dir' = CleanupDir(dir, tpath[r])
    /\ UNCHANGED <<envVars, pdial, ino, rcvd, perm, dpath, tpath, hashed>>

HandlePut(r) ==
    \/ \E m \in clientMsgs, ok \in ioOutcomes :
          PutEnter(r, pmd[r], m, ok) /\ UNCHANGED <<pathVars, xferVars, cacheVars, miscVars>>
    \/ \E m \in clientMsgs, ok \in ioOutcomes :
          PutRecvNext(r, m, ok) /\ UNCHANGED <<pathVars, xferVars, cacheVars, miscVars>>
    \/ \E ok \in ioOutcomes : PutClose(r, ok) /\ UNCHANGED <<pathVars, xferVars, cacheVars, miscVars>>
    \/ \E ok \in ioOutcomes : PutChmod(r, ok) /\ UNCHANGED <<pathVars, xferVars, cacheVars, miscVars>>
    \/ \E ok \in ioOutcomes : PutRename(r, ok) /\ UNCHANGED <<pathVars, xferVars, cacheVars, miscVars>>
    \/ \E ok \in ioOutcomes : PutSendAndClose(r, ok) /\ UNCHANGED <<pathVars, xferVars, cacheVars, miscVars>>

-----------------------------------------------------------------------------
(* HandleFileRemove *)

RmPaths ==
    { NoPath,
      <<"/", "tmp", "/", "a">>,
      <<"/", "etc", "/", "passwd">>,
      <<"/", "tmp", "/", "no such file">>,
      <<"/", "tmp", "/", "Permission denied">> }

\* A RemoveRequest as its getter shows it: a nil request reads as the empty path.
RmReqs ==
    {[nil |-> TRUE, remoteFile |-> NoPath]}
    \cup {[nil |-> FALSE, remoteFile |-> p] : p \in RmPaths}

\* The errors os.Remove can fail with, and the text of each.
Errnos == {"ENOENT", "EACCES", "EPERM", "EROFS"}

ErrnoText(e) ==
    CASE e = "ENOENT" -> <<"no such file", " or directory">>
      [] e = "EACCES" -> <<"permission denied">>
      [] e = "EPERM" -> <<"operation not permitted">>
      [] e = "EROFS" -> <<"read-only file system">>

\* (*os.PathError).Error(): "remove <path>: <errno text>"
PathErrorText(path, e) == <<"remove", " ">> \o path \o <<":", " ">> \o ErrnoText(e)

\* strings.ToLower; "Permission denied" is the one text with an upper-case letter.
ToLower(s) ==
    [i \in DOMAIN s |-> IF s[i] = "Permission denied" THEN "permission denied" ELSE s[i]]

IsNotExist(e) == e = "ENOENT"
IsPermission(e) == e \in {"EACCES", "EPERM"}

\* The status code HandleFileRemove returns for a failed os.Remove.
RemoveErrorCode(path, e) ==
    LET lower == ToLower(PathErrorText(path, e))
    IN  IF IsNotExist(e) \/ Contains(lower, <<"no such file">>) THEN "NotFound"
        ELSE IF IsPermission(e) \/ Contains(lower, <<"permission denied">>)
             THEN "PermissionDenied"
        ELSE "Internal"

\* What os.Remove(path) can return: ENOENT for a missing file; for an existing
\* one success, or one of the other errors when system calls may fail.
OsRemoveErrs(d, path) ==
    IF ~Exists(d, path) THEN {"ENOENT"}
    ELSE {"nil"} \cup (IF FALSE \in ioOutcomes THEN Errnos \ {"ENOENT"} ELSE {})

HandleFileRemove(req, e) ==
    /\ rmpc = "start"
    /\ rmpc' = "done"
    /\ rmreq' = req
    /\ IF req.nil \/ req.remoteFile = NoPath
       THEN /\ e = "nil"
            /\ rmresult' = "InvalidArgument"
            /\ rmerr' = "none"
            /\ rmio' = <<>>
            /\ UNCHANGED dir
       ELSE IF validatePath(req.remoteFile) # "nil"
       THEN /\ e = "nil"
            /\ rmresult' = "PermissionDenied"
            /\ rmerr' = "none"
            /\ rmio' = <<>>
            /\ UNCHANGED dir
       ELSE LET translatedPath == translatePathForContainer(req.remoteFile)
            IN  /\ e \in OsRemoveErrs(dir, translatedPath)
                /\ rmio' = <<translatedPath>>
                /\ rmerr' = e
                /\ dir' = IF e = "nil" THEN Unlink(dir, translatedPath) ELSE dir
                /\ rmresult' = IF e = "nil" THEN "OK" ELSE RemoveErrorCode(translatedPath, e)
    /\ UNCHANGED <<pathVars, envVars, reqVars, ino, xferVars, cacheVars, authVars, connVars>>

RemoveIdle ==
    /\ rmpc = "off"
    /\ rmreq = [nil |-> TRUE, remoteFile |-> NoPath]
    /\ rmerr = "none"
    /\ rmresult = "none"
    /\ rmio = <<>>

-----------------------------------------------------------------------------
(* Package auth: parseMethod, CertAuthorizer, the two interceptors.  A method *)
(* name is a sequence of tokens: "/", "." and blocks of ordinary characters. *)

\* The sep-separated parts of s, empty ones included (strings.Split).
RECURSIVE SplitOn(_, _)
SplitOn(s, sep) ==
    IF s = <<>> THEN << <<>> >>
    ELSE LET rest == SplitOn(Tail(s), sep)
         IN  IF Head(s) = sep THEN << <<>> >> \o rest
             ELSE << <<Head(s)>> \o Head(rest) >> \o Tail(rest)

\* A table that lists Reboot as a read method.
gnoiMethodsRebootRead ==
    [k \in {<<"system", ".", m>> : m \in {"SetPackage", "Reboot", "KillProcess",
                                          "SwitchControlProcessor", "CancelReboot", "Ping",
                                          "Traceroute", "Time", "RebootStatus"}} |->
        k[3] \in {"SetPackage", "KillProcess", "SwitchControlProcessor", "CancelReboot"}]

\* gnoiMethods: "service.Method" |-> write access required.
gnoiMethods ==
    [k \in {<<"system", ".", m>> : m \in {"SetPackage", "Reboot", "KillProcess",
                                          "SwitchControlProcessor", "CancelReboot", "Ping",
                                          "Traceroute", "Time", "RebootStatus"}} |->
        k[3] \in {"SetPackage", "Reboot", "KillProcess", "SwitchControlProcessor",
                  "CancelReboot"}]

\* gnmiMethods: method |-> write access required.
gnmiMethods == [k \in {<<"Set">>, <<"Get">>, <<"Subscribe">>} |-> k = <<"Set">>]

Parsed(service, writeAccess) == [service |-> service, writeAccess |-> writeAccess]

parseMethod(fullMethod) ==
    IF \/ Contains(fullMethod, <<"grpc", ".", "reflection">>)
       \/ Contains(fullMethod, <<"grpc", ".", "health">>)
    THEN Parsed("", FALSE)
    ELSE LET parts == SplitOn(fullMethod, "/")
         IN  IF Len(parts) < 3 THEN Parsed("unknown", FALSE)
             ELSE LET grpcServiceName == parts[2]
                      methodName == parts[3]
                  IN  IF HasPrefix(grpcServiceName, <<"gnoi", ".">>)
                      THEN LET serviceParts == SplitOn(grpcServiceName, ".")
                           IN  IF Len(serviceParts) >= 2
                               THEN LET serviceMethod == serviceParts[2] \o <<".">> \o methodName
                                    IN  IF serviceMethod \in DOMAIN gnoiMethods
                                        THEN Parsed("gnoi", gnoiMethods[serviceMethod])
                                        ELSE Parsed("gnoi", FALSE)
                               ELSE Parsed("gnoi", FALSE)
                      ELSE IF grpcServiceName = <<"gnmi", ".", "gNMI">>
                      THEN IF methodName \in DOMAIN gnmiMethods
                           THEN Parsed("gnmi", gnmiMethods[methodName])
                           ELSE Parsed("gnmi", FALSE)
                      ELSE Parsed("unknown", FALSE)

\* strings.TrimPrefix
TrimPrefix(s, p) == IF HasPrefix(s, p) THEN SubSeq(s, Len(p) + 1, Len(s)) ELSE s

\* A switch in which a readonly role grants write requests too.
RoleDecisionReadonlyWrites(suffix, writeAccess) ==
    IF suffix \in {<<"readwrite">>, <<"readonly">>} THEN "grant"
    ELSE IF suffix = <<"noaccess">> THEN "deny"
    ELSE "next"

\* The switch of hasAccess on a role's access level: return true, return
\* false, or go on to the next role.
RoleDecision(suffix, writeAccess) ==
    IF suffix = <<"readwrite">> THEN "grant"
    ELSE IF suffix = <<"readonly">> THEN (IF ~writeAccess THEN "grant" ELSE "next")
    ELSE IF suffix = <<"noaccess">> THEN "deny"
    ELSE "next"

\* CertAuthorizer.hasAccess: the roles are tried in order.
RECURSIVE hasAccess(_, _, _)
hasAccess(roles, service, writeAccess) ==
    IF roles = <<>> THEN FALSE
    ELSE LET role == Head(roles)
             decision == IF HasPrefix(role, <<service>>)
                         THEN RoleDecision(TrimPrefix(role, <<service, "_">>), writeAccess)
                         ELSE "next"
         IN  IF decision = "grant" THEN TRUE
             ELSE IF decision = "deny" THEN FALSE
             ELSE hasAccess(Tail(roles), service, writeAccess)

NoError == [code |-> "OK", msg |-> ""]
\* A peer: whether extractCN finds a certificate CN, and the roles
\* GetRolesForCN returns for it.
NoCert == [cert |-> FALSE, roles |-> <<>>]
Peer(roles) == [cert |-> TRUE, roles |-> roles]

\* CertAuthorizer.CheckAccess
CheckAccess(peer, service, writeAccess) ==
    IF ~peer.cert THEN [code |-> "Unauthenticated", msg |-> "no valid certificate"]
    ELSE IF Len(peer.roles) = 0
    THEN [code |-> "Unauthenticated", msg |-> "unauthorized certificate"]
    ELSE IF hasAccess(peer.roles, service, writeAccess) THEN NoError
    ELSE [code |-> "PermissionDenied", msg |-> "insufficient permissions"]

\* What is recorded of the CheckAccess call of one RPC.
NoCheck == [called |-> FALSE, service |-> "", writeAccess |-> FALSE, err |-> NoError]
Checked(service, writeAccess, err) ==
    [called |-> TRUE, service |-> service, writeAccess |-> writeAccess, err |-> err]

\* What the RPC handler itself can return.
HandlerErrors == {NoError, [code |-> "Internal", msg |-> "handler failed"]}

AuthFrame ==
    UNCHANGED <<pathVars, putVars, xferVars, cacheVars, rmVars, connVars, amethod, apeer>>

\* An interceptor that calls the handler whatever CheckAccess says.
InterceptorNoCheck(kind, herr) ==
    /\ apc = "start"
    /\ apc' = kind
    /\ aparsed' = parseMethod(amethod)
    /\ acheck' = NoCheck
    /\ ahandler' = ahandler + 1
    /\ aret' = herr
    /\ AuthFrame

\* The body both interceptors share: parse, skip or check, then the handler.
Interceptor(kind, herr) ==
    /\ apc = "start"
    /\ apc' = kind
    /\ LET p == parseMethod(amethod)
       IN  /\ aparsed' = p
           /\ IF p.service = ""
              THEN /\ acheck' = NoCheck
                   /\ ahandler' = ahandler + 1
                   /\ aret' = herr
              ELSE LET err == CheckAccess(apeer, p.service, p.writeAccess)
                   IN  /\ acheck' = Checked(p.service, p.writeAccess, err)
                       /\ IF err # NoError
                          THEN /\ aret' = err
                               /\ UNCHANGED ahandler
                          ELSE /\ ahandler' = ahandler + 1
                               /\ aret' = herr
    /\ AuthFrame

\* The unary interceptor AuthMiddleware(auth) returns.
AuthMiddleware(herr) == Interceptor("unary", herr)

\* A stream interceptor without the check.
StreamAuthMiddlewareNoCheck(herr) == InterceptorNoCheck("stream", herr)

\* The stream interceptor StreamAuthMiddleware(auth) returns.
StreamAuthMiddleware(herr) == Interceptor("stream", herr)

\* parseMethod called on its own.
ParseMethodCall ==
    /\ apc = "parse"
    /\ apc' = "parsed"
    /\ aparsed' = parseMethod(amethod)
    /\ UNCHANGED <<acheck, ahandler, aret>>
    /\ AuthFrame

AuthIdle ==
    /\ amethod = <<>>
    /\ aparsed = "none"
    /\ apeer = NoCert
    /\ apc = "off"
    /\ acheck = NoCheck
    /\ ahandler = 0
    /\ aret = "none"

\* The streaming proxy has not returned and every connection is open.
ConnIdle == xclosed = <<>> /\ closedConns = {}

MiscIdle == RemoveIdle /\ AuthIdle /\ ConnIdle

-----------------------------------------------------------------------------
(* Package dpuproxy: DPUResolver, DPUProxy (the connection cache) and the    *)
(* package-level singleton.  Its implementation is not among the source      *)
(* files (only singleton_test.go is); the model follows the specification's  *)
(* sections 4.2 and 4.3.                                                     *)

DPUs == {"0", "1"}
Callers == {1, 2, 3}
NoConn == 0
NoCaller == 0

\* The rows a DPU can have in the two tables:
\* CHASSIS_MIDPLANE_TABLE|DPU<id> (absent, or present with its access flag) and
\* the configuration row (missing, malformed or usable).
StateRows == {[present |-> FALSE, access |-> ""],
              [present |-> TRUE, access |-> "False"],
              [present |-> TRUE, access |-> "True"]}
ConfigRows == {"missing", "malformed", "ok"}

\* A resolver that looks at the configuration before the reachability flag.
ResolveConfigFirst(id) ==
    IF ~stateDB[id].present THEN "NotFound"
    ELSE IF configDB[id] # "ok" THEN "Internal"
    ELSE IF stateDB[id].access # "True" THEN "Unavailable"
    ELSE "nil"

\* DPUResolver.Resolve(id): the error class, "nil" when an endpoint is returned.
Resolve(id) ==
    IF ~stateDB[id].present THEN "NotFound"
    ELSE IF stateDB[id].access # "True" THEN "Unavailable"
    ELSE IF configDB[id] # "ok" THEN "Internal"
    ELSE "nil"

\* A cache that reports every resolution failure as internal.
ResolveErrorAllInternal(info) == "Internal"

\* The error GetConnection returns for a failed resolution.
ResolveError(info) == IF info = "Unavailable" THEN "Unavailable" ELSE "Internal"

\* One lock for the whole cache.
LockOfCache(id) == "0"

\* The lock that serializes the dials of an identifier: one per identifier.
LockOf(id) == id

\* No mutual exclusion at all.
MayAcquireAlways(l) == TRUE

\* The lock can be taken when nobody holds it.
MayAcquire(l) == connMu[l] = NoCaller

\* The handle a dial creates: one never handed out before.
NewConn == 1 + dials["0"] + dials["1"]

GcFrame == UNCHANGED <<pathVars, putVars, xferVars, miscVars>>

\* An entry point that asks for the resolver before it looks at the singleton.
GcPrecheckResolverFirst(p) ==
    IF p # "proxy" THEN "resolver not available" ELSE "nil"

\* The checks made before anything is resolved: the singleton, then its resolver.
GcPrecheck(p) ==
    IF p = "nil" THEN "DPU proxy not initialized"
    ELSE IF p = "noResolver" THEN "resolver not available"
    ELSE "nil"

\* A cache that skips the resolution when it holds a connection.
AfterPrecheckCacheFirst(id) == IF conns[id] # NoConn THEN "lock" ELSE "resolve"

\* What GetConnection does first: the resolution, whatever the cache holds.
AfterPrecheck(id) == "resolve"

\* GetDPUConnection(ctx, id), package level: reads defaultProxy and calls its
\* GetDPUConnection.
GcEntry(c, id) ==
    /\ gpc[c] = "idle"
    /\ gid' = [gid EXCEPT ![c] = id]
    /\ gsaw' = [gsaw EXCEPT ![c] = defaultProxy]
    /\ LET err == GcPrecheck(defaultProxy)
       IN  /\ gerr' = [gerr EXCEPT ![c] = IF err = "nil" THEN "none" ELSE err]
           /\ gpc' = [gpc EXCEPT ![c] = IF err = "nil" THEN AfterPrecheck(id) ELSE "done"]
    /\ UNCHANGED <<defaultProxy, stateDB, configDB, conns, dials, connMu, ginfo, gconn, gio>>
    /\ GcFrame

\* The resolution, always fresh.
GcResolve(c) ==
    /\ gpc[c] = "resolve"
    /\ gio' = [gio EXCEPT ![c] = Append(@, "Resolve")]
    /\ LET info == Resolve(gid[c])
       IN  /\ ginfo' = [ginfo EXCEPT ![c] = info]
           /\ gerr' = [gerr EXCEPT ![c] = IF info = "nil" THEN "none" ELSE ResolveError(info)]
           /\ gpc' = [gpc EXCEPT ![c] = IF info = "nil" THEN "lock" ELSE "done"]
    /\ UNCHANGED <<defaultProxy, stateDB, configDB, conns, dials, connMu, gid, gsaw, gconn>>
    /\ GcFrame

\* The cache lookup under the identifier's lock: a hit returns the cached
\* handle and releases the lock; a miss keeps the lock for the dial.
GcLock(c) ==
    /\ gpc[c] = "lock"
    /\ MayAcquire(LockOf(gid[c]))
    /\ IF conns[gid[c]] # NoConn
       THEN /\ gconn' = [gconn EXCEPT ![c] = conns[gid[c]]]
            /\ gerr' = [gerr EXCEPT ![c] = "nil"]
            /\ gpc' = [gpc EXCEPT ![c] = "done"]
            /\ UNCHANGED connMu
       ELSE /\ connMu' = [connMu EXCEPT ![LockOf(gid[c])] = c]
            /\ gpc' = [gpc EXCEPT ![c] = "dial"]
            /\ UNCHANGED <<gconn, gerr>>
    /\ UNCHANGED <<defaultProxy, stateDB, configDB, conns, dials, gid, gsaw, ginfo, gio>>
    /\ GcFrame

\* The dial: the new handle is cached, the lock released, the handle returned.
GcDial(c) ==
    /\ gpc[c] = "dial"
    /\ gio' = [gio EXCEPT ![c] = Append(@, "Dial")]
    /\ dials' = [dials EXCEPT ![gid[c]] = @ + 1]
    /\ conns' = [conns EXCEPT ![gid[c]] = NewConn]
    /\ connMu' = [connMu EXCEPT ![LockOf(gid[c])] = NoCaller]
    /\ gconn' = [gconn EXCEPT ![c] = NewConn]
    /\ gerr' = [gerr EXCEPT ![c] = "nil"]
    /\ gpc' = [gpc EXCEPT ![c] = "done"]
    /\ UNCHANGED <<defaultProxy, stateDB, configDB, gid, gsaw, ginfo>>
    /\ GcFrame

\* SetDefaultProxy(p): nil, NewDPUProxy(nil), or the proxy built on a resolver.
SetDefaultProxy(p) ==
    /\ defaultProxy # p
    /\ defaultProxy' = p
    /\ UNCHANGED <<stateDB, configDB, conns, dials, connMu, gpc, gid, gsaw, ginfo, gconn,
                   gerr, gio>>
    /\ GcFrame

\* The state table changes: a DPU is marked up or down, or its entry removed.
SetStateRow(d, row) ==
    /\ stateDB[d] # row
    /\ stateDB' = [stateDB EXCEPT ![d] = row]
    /\ UNCHANGED <<defaultProxy, configDB, conns, dials, connMu, gpc, gid, gsaw, ginfo, gconn,
                   gerr, gio>>
    /\ GcFrame

GetDPUConnection ==
    \/ \E c \in Callers, id \in DPUs : GcEntry(c, id)
    \/ \E c \in Callers : GcResolve(c)
    \/ \E c \in Callers : GcLock(c)
    \/ \E c \in Callers : GcDial(c)

\* The errors GetDPUConnection can return to a caller.
GetConnErrors ==
    {GcPrecheck(p) : p \in {"nil", "noResolver"}}
    \cup {ResolveError(i) : i \in {"NotFound", "Unavailable", "Internal"}}

CacheInit(callers) ==
    /\ defaultProxy = "nil"
    /\ stateDB \in [DPUs -> StateRows]
    /\ configDB \in [DPUs -> ConfigRows]
    /\ conns = [d \in DPUs |-> NoConn]
    /\ dials = [d \in DPUs |-> 0]
    /\ connMu = [d \in DPUs |-> NoCaller]
    /\ gpc = [c \in Callers |-> IF c \in callers THEN "idle" ELSE "off"]
    /\ gid = [c \in Callers |-> "0"]
    /\ gsaw = [c \in Callers |-> "none"]
    /\ ginfo = [c \in Callers |-> "none"]
    /\ gconn = [c \in Callers |-> NoConn]
    /\ gerr = [c \in Callers |-> "none"]
    /\ gio = [c \in Callers |-> <<>>]

CacheIdle ==
    /\ defaultProxy = "nil"
    /\ stateDB = [d \in DPUs |-> [present |-> FALSE, access |-> ""]]
    /\ configDB = [d \in DPUs |-> "missing"]
    /\ conns = [d \in DPUs |-> NoConn]
    /\ dials = [d \in DPUs |-> 0]
    /\ connMu = [d \in DPUs |-> NoCaller]
    /\ gpc = [c \in Callers |-> "off"]
    /\ gid = [c \in Callers |-> "0"]
    /\ gsaw = [c \in Callers |-> "none"]
    /\ ginfo = [c \in Callers |-> "none"]
    /\ gconn = [c \in Callers |-> NoConn]
    /\ gerr = [c \in Callers |-> "none"]
    /\ gio = [c \in Callers |-> <<>>]

-----------------------------------------------------------------------------
(* HandleTransferToRemote *)

NoDigest == 0 - 1

NoUrl == ""
SomeUrl == "http://server/file.bin"

\* A TransferToRemoteRequest as its getters show it: a nil request and a nil
\* RemoteDownload read as empty strings and the UNKNOWN protocol.
NilRequest ==
    [nil |-> TRUE, hasDownload |-> FALSE, protocol |-> "UNKNOWN", url |-> NoUrl,
     localPath |-> NoPath]

XferPaths == {NoPath, <<"/", "tmp", "/", "a">>, <<"/", "etc", "/", "passwd">>}

XferReqs ==
    {NilRequest}
    \cup {[nil |-> FALSE, hasDownload |-> FALSE, protocol |-> "UNKNOWN", url |-> NoUrl,
           localPath |-> p] : p \in XferPaths}
    \cup {[nil |-> FALSE, hasDownload |-> TRUE, protocol |-> pr, url |-> u, localPath |-> p] :
            pr \in {"HTTP", "SFTP"}, u \in {NoUrl, SomeUrl}, p \in XferPaths}

\* The incoming metadata: absent, or the first values of x-sonic-ss-target-type
\* and x-sonic-ss-target-index ("" when the key is missing).
NoMetadata == [present |-> FALSE, type |-> "", index |-> ""]

Metadata ==
    {NoMetadata}
    \cup {[present |-> TRUE, type |-> t, index |-> i] : t \in {"", "dpu", "npu"}, i \in {"", "0"}}

\* A routing test that looks at the target type only.
IsDPURoutedByType(md) == md.present /\ md.type = "dpu"

\* HandleTransferToRemote's routing test.
IsDPURouted(md) == md.present /\ md.type = "dpu" /\ md.index # ""

\* Request checks that forget the path validation.
LocalCheckNoPath(req) ==
    IF req.nil THEN "InvalidArgument"
    ELSE IF ~req.hasDownload THEN "InvalidArgument"
    ELSE IF req.localPath = NoPath THEN "InvalidArgument"
    ELSE IF req.protocol # "HTTP" THEN "Unimplemented"
    ELSE IF req.url = NoUrl THEN "InvalidArgument"
    ELSE "nil"

\* The request checks of handleTransferToRemoteLocal, in order; "nil" when all pass.
LocalCheck(req) ==
    IF req.nil THEN "InvalidArgument"
    ELSE IF ~req.hasDownload THEN "InvalidArgument"
    ELSE IF req.localPath = NoPath THEN "InvalidArgument"
    ELSE IF validatePath(req.localPath) # "nil" THEN "InvalidArgument"
    ELSE IF req.protocol # "HTTP" THEN "Unimplemented"
    ELSE IF req.url = NoUrl THEN "InvalidArgument"
    ELSE "nil"

\* The input checks of HandleTransferToRemoteForDPUStreaming, in order.
StreamingCheck(req, dpuIndex) ==
    IF req.nil THEN "InvalidArgument"
    ELSE IF dpuIndex = "" THEN "InvalidArgument"
    ELSE IF ~req.hasDownload THEN "InvalidArgument"
    ELSE IF req.localPath = NoPath THEN "InvalidArgument"
    ELSE IF req.protocol # "HTTP" THEN "Unimplemented"
    ELSE IF req.url = NoUrl THEN "InvalidArgument"
    ELSE "nil"

XferRunning == xpc \notin {"off", "start", "done", "failed", "returned"}

\* HandleTransferToRemote up to the first I/O call of the handler it picks.
XferStart(req, md) ==
    /\ xpc = "start"
    /\ xreq' = req
    /\ xmd' = md
    /\ LET dpu == IsDPURouted(md)
           code == IF dpu THEN StreamingCheck(req, md.index) ELSE LocalCheck(req)
       IN  /\ xhandler' = IF dpu THEN "dpu" ELSE "local"
           /\ xresult' = IF code # "nil" THEN code ELSE "none"
           /\ xpc' = IF code # "nil" THEN "failed"
                     ELSE IF dpu THEN "HttpOpen" ELSE "Download"
    /\ UNCHANGED <<netOutcomes, connErr, xhash, xio, src, srcPos, buf, rerr, phash, reads, sent,
                   sendClosed, expired, rcvIdx>>
    /\ UNCHANGED <<pathVars, putVars, cacheVars, miscVars>>

-----------------------------------------------------------------------------
(* handleTransferToRemoteLocal *)

LocalIno == 3

\* A handler that downloads to the path as requested, untranslated.
LocalTargetRaw(req) == req.localPath

\* translatedPath := translatePathForContainer(localPath)
LocalTarget(req) == translatePathForContainer(req.localPath)

\* download.DownloadHTTP(ctx, url, path, maxFileSize): the file at path after the
\* call has the first k bytes of the source (all of them on success); k < 0
\* stands for a call that failed before touching the file.
DownloadHTTPDir(d, path, k) ==
    IF k < 0 THEN d ELSE OpenTruncDir(d, path, LocalIno)

DownloadHTTPIno(d, i, path, k) ==
    IF k < 0 THEN i
    ELSE LET opened == OpenTruncIno(d, i, path, LocalIno)
             f == OpenTruncFd(d, path, LocalIno).ino
         IN  [opened EXCEPT ![f].data = SubSeq(src, 1, k)]

\* The download step: DownloadHTTP under downloadCtx.
XferLocalDownload(ok, k) ==
    /\ xpc = "Download"
    /\ ok => k = Len(src)
    /\ xio' = Append(xio, "DownloadHTTP")
    /\ LET translatedPath == LocalTarget(xreq)
       IN  /\ dir' = DownloadHTTPDir(dir, translatedPath, k)
           /\ ino' = DownloadHTTPIno(dir, ino, translatedPath, k)
    /\ xpc' = IF ok THEN "Hash" ELSE "failed"
    /\ xresult' = IF ok THEN "none" ELSE "Internal"
    /\ UNCHANGED <<netOutcomes, connErr, xreq, xmd, xhandler, xhash, src, srcPos, buf, rerr, phash,
                   reads, sent, sendClosed, expired, rcvIdx>>
    /\ UNCHANGED <<pathVars, envVars, reqVars, cacheVars, miscVars>>

\* A hash step that returns the error and leaves the download in place.
XferLocalHashKeepsFile(ok) ==
    /\ xpc = "Hash"
    /\ xio' = Append(xio, "CalculateMD5")
    /\ xhash' = IF ok THEN Digest(ino[dir[LocalTarget(xreq)]].data) ELSE xhash
    /\ xpc' = IF ok THEN "done" ELSE "failed"
    /\ xresult' = IF ok THEN "OK" ELSE "Internal"
    /\ UNCHANGED <<netOutcomes, connErr, xreq, xmd, xhandler, src, srcPos, buf, rerr, phash,
                   reads, sent, sendClosed, expired, rcvIdx>>
    /\ UNCHANGED <<pathVars, envVars, reqVars, dir, ino, cacheVars, miscVars>>

\* The hash step: hash.CalculateMD5, and os.Remove when it fails.
XferLocalHash(ok) ==
    /\ xpc = "Hash"
    /\ LET translatedPath == LocalTarget(xreq)
       IN  IF ok
           THEN /\ xio' = Append(xio, "CalculateMD5")
                /\ xhash' = Digest(ino[dir[translatedPath]].data)
                /\ xpc' = "done"
                /\ xresult' = "OK"
                /\ UNCHANGED dir
           ELSE /\ xio' = xio \o <<"CalculateMD5", "Remove">>
                /\ dir' = Unlink(dir, translatedPath)
                /\ xpc' = "failed"
                /\ xresult' = "Internal"
                /\ UNCHANGED xhash
    /\ UNCHANGED <<netOutcomes, connErr, xreq, xmd, xhandler, src, srcPos, buf, rerr, phash,
                   reads, sent, sendClosed, expired, rcvIdx>>
    /\ UNCHANGED <<pathVars, envVars, reqVars, ino, cacheVars, miscVars>>

-----------------------------------------------------------------------------
(* HandleTransferToRemoteForDPUStreaming *)

\* The Open request the proxy sends.
OpenReq(localPath) == [kind |-> "Open", path |-> localPath, perm |-> DefaultMode]

\* hash.StreamingMD5Calculator: Write folds bytes in, Sum gives the digest.
HashCalcWrite(h, bytes) == h \o bytes
HashCalcSum(h) == Digest(h)

\* A reader that hashes a chunk only when the Read returned no error, missing
\* the bytes that arrive together with io.EOF.
TeeWritesUnlessError(n, err) == n > 0 /\ err = "nil"

\* io.TeeReader(httpStream, hashCalc): what Read returns is written to hashCalc
\* whenever it returned bytes, before Read returns.
TeeWrites(n, err) == n > 0

\* A wrong chunk test: a Read of no bytes is sent too.
ShouldSendAlways(n) == n >= 0

\* `if n > 0`: the chunk is sent when the Read returned bytes.
ShouldSend(n) == n > 0

\* A return with an error.
XferFail(code) ==
    /\ xpc' = "failed"
    /\ xresult' = code

\* Where the loop goes once the chunk of a Read is dealt with: `break` on
\* io.EOF, the error return on any other error, the next iteration otherwise.
XferAfterChunk(err) ==
    IF err = "EOF" THEN xpc' = "SendHash" /\ UNCHANGED xresult
    ELSE IF err # "nil" THEN XferFail("Internal")
    ELSE xpc' = "Loop" /\ UNCHANGED xresult

\* A proxy that stages the download in a local file before streaming it.
XferHttpOpenStaged(ok) ==
    /\ xpc = "HttpOpen"
    /\ xio' = Append(xio, "DownloadHTTPStreaming")
    /\ IF ok THEN xpc' = "GetConn" /\ UNCHANGED xresult ELSE XferFail("Internal")
    /\ dir' = DownloadHTTPDir(dir, LocalTarget(xreq), Len(src))
    /\ ino' = DownloadHTTPIno(dir, ino, LocalTarget(xreq), Len(src))
    /\ UNCHANGED <<netOutcomes, connErr, xreq, xmd, xhandler, xhash, src, srcPos, buf, rerr,
                   phash, reads, sent, sendClosed, expired, rcvIdx>>
    /\ UNCHANGED <<pathVars, envVars, reqVars, cacheVars, miscVars>>

\* Step 1: download.DownloadHTTPStreaming
XferHttpOpen(ok) ==
    /\ xpc = "HttpOpen"
    /\ xio' = Append(xio, "DownloadHTTPStreaming")
    /\ IF ok THEN xpc' = "GetConn" /\ UNCHANGED xresult ELSE XferFail("Internal")
    /\ UNCHANGED <<netOutcomes, connErr, xreq, xmd, xhandler, xhash, src, srcPos, buf, rerr, phash,
                   reads, sent, sendClosed, expired, rcvIdx>>
    /\ UNCHANGED <<pathVars, putVars, cacheVars, miscVars>>

\* What dpuproxy.GetDPUConnection can return in this run: a connection, or one
\* of its errors when network calls may fail.
GetConnOutcomes ==
    {"nil"} \cup (IF FALSE \in netOutcomes THEN GetConnErrors ELSE {})

\* The status code returned when GetDPUConnection fails with err.
GetConnFailure(err) == "Internal"

\* Step 2: dpuproxy.GetDPUConnection
XferGetConn(err) ==
    /\ xpc = "GetConn"
    /\ xio' = Append(xio, "GetDPUConnection")
    /\ connErr' = err
    /\ IF err = "nil" THEN xpc' = "PutOpen" /\ UNCHANGED xresult
       ELSE XferFail(GetConnFailure(err))
    /\ UNCHANGED <<netOutcomes, xreq, xmd, xhandler, xhash, src, srcPos, buf, rerr, phash,
                   reads, sent, sendClosed, expired, rcvIdx>>
    /\ UNCHANGED <<pathVars, putVars, cacheVars, miscVars>>

\* Step 3: fileClient.Put
XferPutOpen(ok) ==
    /\ xpc = "PutOpen"
    /\ xio' = Append(xio, "Put")
    /\ IF ok THEN xpc' = "SendOpen" /\ UNCHANGED xresult ELSE XferFail("Internal")
    /\ UNCHANGED <<netOutcomes, connErr, xreq, xmd, xhandler, xhash, src, srcPos, buf, rerr, phash,
                   reads, sent, sendClosed, expired, rcvIdx>>
    /\ UNCHANGED <<pathVars, putVars, cacheVars, miscVars>>

\* putClient.Send(openReq)
XferSendOpen(ok) ==
    /\ xpc = "SendOpen"
    /\ xio' = Append(xio, "Send")
    /\ IF ok
       THEN /\ sent' = Append(sent, OpenReq(xreq.localPath))
            /\ xpc' = "Loop"
            /\ UNCHANGED xresult
       ELSE XferFail("Internal") /\ UNCHANGED sent
    /\ UNCHANGED <<netOutcomes, connErr, xreq, xmd, xhandler, xhash, src, srcPos, buf, rerr, phash,
                   reads, sendClosed, expired, rcvIdx>>
    /\ UNCHANGED <<pathVars, putVars, cacheVars, miscVars>>

\* Step 5, first half of an iteration: the deadline check, then
\* teeReader.Read(buffer) returning n bytes and err.
XferRead(n, err) ==
    /\ xpc = "Loop"
    /\ IF expired
       THEN /\ XferFail("DeadlineExceeded")
            /\ UNCHANGED <<xio, srcPos, buf, rerr, phash, reads>>
       ELSE /\ n <= Len(src) - srcPos
            /\ err = "EOF" => srcPos + n = Len(src)
            /\ err = "ReadErr" => FALSE \in netOutcomes
            /\ (n = 0 /\ err = "nil") => ~(buf = <<>> /\ rerr = "nil")
            /\ LET chunk == SubSeq(src, srcPos + 1, srcPos + n)
               IN  /\ xio' = Append(xio, "Read")
                   /\ srcPos' = srcPos + n
                   /\ buf' = chunk
                   /\ rerr' = err
                   /\ phash' = IF TeeWrites(n, err) THEN HashCalcWrite(phash, chunk) ELSE phash
                   /\ reads' = IF n > 0 THEN Append(reads, chunk) ELSE reads
                   /\ IF ShouldSend(n) THEN xpc' = "Send" /\ UNCHANGED xresult
                      ELSE XferAfterChunk(err)
    /\ UNCHANGED <<netOutcomes, connErr, xreq, xmd, xhandler, xhash, src, sent, sendClosed, expired,
                   rcvIdx>>
    /\ UNCHANGED <<pathVars, putVars, cacheVars, miscVars>>

\* Step 5, second half: putClient.Send(contentReq)
XferSendChunk(ok) ==
    /\ xpc = "Send"
    /\ xio' = Append(xio, "Send")
    /\ IF ok
       THEN /\ sent' = Append(sent, [kind |-> "Contents", data |-> buf])
            /\ XferAfterChunk(rerr)
       ELSE XferFail("Internal") /\ UNCHANGED sent
    /\ UNCHANGED <<netOutcomes, connErr, xreq, xmd, xhandler, xhash, src, srcPos, buf, rerr, phash,
                   reads, sendClosed, expired, rcvIdx>>
    /\ UNCHANGED <<pathVars, putVars, cacheVars, miscVars>>

\* Step 6: hashCalc.Sum() and putClient.Send(hashReq)
XferSendHash(ok) ==
    /\ xpc = "SendHash"
    /\ xio' = Append(xio, "Send")
    /\ IF ok
       THEN /\ sent' = Append(sent, [kind |-> "Hash", hash |-> HashCalcSum(phash)])
            /\ xpc' = "CloseSend"
            /\ UNCHANGED xresult
       ELSE XferFail("Internal") /\ UNCHANGED sent
    /\ UNCHANGED <<netOutcomes, connErr, xreq, xmd, xhandler, xhash, src, srcPos, buf, rerr, phash,
                   reads, sendClosed, expired, rcvIdx>>
    /\ UNCHANGED <<pathVars, putVars, cacheVars, miscVars>>

\* Step 7, putClient.CloseAndRecv(): the send side is closed ...
XferCloseSend ==
    /\ xpc = "CloseSend"
    /\ xio' = Append(xio, "CloseAndRecv")
    /\ sendClosed' = TRUE
    /\ xpc' = "RecvAck"
    /\ UNCHANGED <<netOutcomes, connErr, xreq, xmd, xhandler, xresult, xhash, src, srcPos, buf, rerr,
                   phash, reads, sent, expired, rcvIdx>>
    /\ UNCHANGED <<pathVars, putVars, cacheVars, miscVars>>

\* The outcomes of waiting for the peer's response: any, when the peer is not
\* part of the run; otherwise the modelled peer's answer once it has returned.
AckOutcomes ==
    IF pc[1] = "off" THEN netOutcomes
    ELSE IF pc[1] = "Done" THEN netOutcomes
    ELSE IF pc[1] = "Failed" THEN {FALSE}
    ELSE {}

\* ... and the peer's response is awaited; the response carries hashBytes.
XferRecvAck(ok) ==
    /\ xpc = "RecvAck"
    /\ IF ok
       THEN /\ xpc' = "done"
            /\ xresult' = "OK"
            /\ xhash' = HashCalcSum(phash)
       ELSE XferFail("Internal") /\ UNCHANGED xhash
    /\ UNCHANGED <<netOutcomes, connErr, xreq, xmd, xhandler, xio, src, srcPos, buf, rerr, phash,
                   reads, sent, sendClosed, expired, rcvIdx>>
    /\ UNCHANGED <<pathVars, putVars, cacheVars, miscVars>>

\* streamCtx reaches its deadline (downloadTimeout after the call began).
DeadlineExpires ==
    /\ xhandler = "dpu"
    /\ XferRunning
    /\ ~expired
    /\ expired' = TRUE
    /\ UNCHANGED <<netOutcomes, connErr, xreq, xmd, xpc, xhandler, xresult, xhash, xio, src, srcPos,
                   buf, rerr, phash, reads, sent, sendClosed, rcvIdx>>
    /\ UNCHANGED <<pathVars, putVars, cacheVars, miscVars>>

ReadErrs == {"nil", "EOF", "ReadErr"}

\* A buffer as large as the largest file.
ReadSizesWholeFile == 0..MaxFile

\* The number of bytes a Read into buffer (chunkSize bytes) can return.
ReadSizes == 0..MaxChunk

\* The steps of the streaming proxy other than step 2.
XferStreamSteps ==
    \/ \E ok \in netOutcomes : XferHttpOpen(ok)
    \/ \E ok \in netOutcomes : XferPutOpen(ok)
    \/ \E ok \in netOutcomes : XferSendOpen(ok)
    \/ \E n \in ReadSizes, err \in ReadErrs : XferRead(n, err)
    \/ \E ok \in netOutcomes : XferSendChunk(ok)
    \/ \E ok \in netOutcomes : XferSendHash(ok)
    \/ XferCloseSend
    \/ \E ok \in AckOutcomes : XferRecvAck(ok)
    \/ DeadlineExpires

HandleTransferToRemoteForDPUStreaming ==
    \/ \E err \in GetConnOutcomes : XferGetConn(err)
    \/ XferStreamSteps

-----------------------------------------------------------------------------
(* The return of the streaming proxy, and the proxy on top of the cache *)

\* The caller of GetDPUConnection that stands for the streaming proxy.
ProxyCaller == 1

\* A handler that also closes the connection it obtained when it returns.
DeferredWithConn(io) ==
    IF io = <<>> THEN <<>>
    ELSE IF Len(io) = 1 THEN <<"cancel">>
    ELSE <<"httpStream.Close", "conn.Close", "cancel">>

\* The deferred calls that run when the handler returns after the calls io:
\* none when the request was rejected before streamCtx was made, cancel()
\* alone when the download could not be opened, httpStream.Close() and then
\* cancel() otherwise.
Deferred(io) ==
    IF io = <<>> THEN <<>>
    ELSE IF Len(io) = 1 THEN <<"cancel">>
    ELSE <<"httpStream.Close", "cancel">>

\* The handler returns: its deferred calls run.
XferReturn ==
    /\ xhandler = "dpu"
    /\ xpc \in {"done", "failed"}
    /\ xpc' = "returned"
    /\ xclosed' = Deferred(xio)
    /\ closedConns' = closedConns \cup
                         (IF \E i \in DOMAIN xclosed' : xclosed'[i] = "conn.Close"
                          THEN {gconn[ProxyCaller]} ELSE {})
    /\ UNCHANGED <<netOutcomes, connErr, xreq, xmd, xhandler, xresult, xhash, xio, src, srcPos,
                   buf, rerr, phash, reads, sent, sendClosed, expired, rcvIdx>>
    /\ UNCHANGED <<pathVars, putVars, cacheVars, rmVars, authVars>>

\* The next TransferToRemote request arrives.
XferNext ==
    /\ xpc = "returned"
    /\ xpc' = "start"
    /\ xreq' = NilRequest
    /\ xmd' = NoMetadata
    /\ xhandler' = "none"
    /\ xresult' = "none"
    /\ xhash' = NoDigest
    /\ xio' = <<>>
    /\ srcPos' = 0
    /\ buf' = <<>>
    /\ rerr' = "none"
    /\ phash' = <<>>
    /\ reads' = <<>>
    /\ sent' = <<>>
    /\ sendClosed' = FALSE
    /\ expired' = FALSE
    /\ rcvIdx' = 0
    /\ connErr' = "none"
    /\ xclosed' = <<>>
    /\ gpc' = [gpc EXCEPT ![ProxyCaller] = "idle"]
    /\ gsaw' = [gsaw EXCEPT ![ProxyCaller] = "none"]
    /\ ginfo' = [ginfo EXCEPT ![ProxyCaller] = "none"]
    /\ gconn' = [gconn EXCEPT ![ProxyCaller] = NoConn]
    /\ gerr' = [gerr EXCEPT ![ProxyCaller] = "none"]
    /\ gio' = [gio EXCEPT ![ProxyCaller] = <<>>]
    /\ UNCHANGED <<netOutcomes, src, closedConns>>
    /\ UNCHANGED <<defaultProxy, stateDB, configDB, conns, dials, connMu, gid>>
    /\ UNCHANGED <<pathVars, putVars, rmVars, authVars>>

\* Step 2 with the connection cache behind it: the call is made for the
\* identifier of the request and its result is what the handler goes on with.
ProxyGetConn ==
    \/ xpc = "GetConn" /\ GcEntry(ProxyCaller, xmd.index)
    \/ GcResolve(ProxyCaller)
    \/ GcLock(ProxyCaller)
    \/ GcDial(ProxyCaller)
    \/ gpc[ProxyCaller] = "done" /\ XferGetConn(gerr[ProxyCaller])

handleTransferToRemoteLocal ==
    \/ \E ok \in netOutcomes, k \in (0 - 1)..Len(src) : XferLocalDownload(ok, k)
    \/ \E ok \in ioOutcomes : XferLocalHash(ok)

-----------------------------------------------------------------------------
(* The peer of the streaming proxy: HandlePut (request 1) on the DPU, reading *)
(* the proxy's Put stream.                                                   *)

\* What the peer's next Recv can return: the next message sent; end-of-input
\* once everything sent was received and the send side is closed; a cancelled
\* stream once the proxy has returned an error (its deferred cancel()).
WireNext ==
    (IF rcvIdx < Len(sent) THEN {sent[rcvIdx + 1]}
     ELSE IF sendClosed THEN {[kind |-> "EOF"]} ELSE {})
    \cup (IF xpc = "failed" THEN {[kind |-> "Canceled"]} ELSE {})

PeerFrame(m) ==
    /\ rcvIdx' = IF m.kind \in RecvErrors THEN rcvIdx ELSE rcvIdx + 1
    /\ UNCHANGED <<netOutcomes, connErr, xreq, xmd, xpc, xhandler, xresult, xhash, xio, src, srcPos,
                   buf, rerr, phash, reads, sent, sendClosed, expired>>
    /\ UNCHANGED <<pathVars, cacheVars, miscVars>>

PeerHandlePut ==
    \/ \E m \in WireNext, ok \in ioOutcomes : PutEnter(1, pmd[1], m, ok) /\ PeerFrame(m)
    \/ \E m \in WireNext, ok \in ioOutcomes : PutRecvNext(1, m, ok) /\ PeerFrame(m)
    \/ \E ok \in ioOutcomes : PutClose(1, ok) /\ UNCHANGED <<pathVars, xferVars, cacheVars, miscVars>>
    \/ \E ok \in ioOutcomes : PutChmod(1, ok) /\ UNCHANGED <<pathVars, xferVars, cacheVars, miscVars>>
    \/ \E ok \in ioOutcomes : PutRename(1, ok) /\ UNCHANGED <<pathVars, xferVars, cacheVars, miscVars>>
    \/ \E ok \in ioOutcomes : PutSendAndClose(1, ok) /\ UNCHANGED <<pathVars, xferVars, cacheVars, miscVars>>

-----------------------------------------------------------------------------
(* Initial values *)

PathIdle ==
    /\ vpath = NoPath
    /\ vresult = "none"

PutPaths ==
    { NoPath,
      <<"/", "tmp", "/", "a">>,
      <<"/", "tmp", "/", "/", "a">>,
      <<"/", "etc", "/", "passwd">> }

OpenMsgsOf(paths, perms) ==
    {[kind |-> "Open", path |-> p, perm |-> q] : p \in paths, q \in perms}

\* The requests in active start in AwaitOpen; the device may hold a file at
\* /tmp/a already; the context of request 1 carries one of mds.
PutInitMd(active, msgs, outcomes, mds) ==
    /\ mntHost \in BOOLEAN
    /\ clientMsgs = msgs
    /\ ioOutcomes = outcomes
    /\ \E old \in BOOLEAN :
          /\ dir = IF old THEN (translatePathForContainer(<<"/", "tmp", "/", "a">>) :> 0)
                   ELSE << >>
          /\ ino = IF old THEN (0 :> [data |-> <<1, 1, 1>>, mode |-> DefaultMode])
                   ELSE << >>
    /\ dir0 = dir
    /\ ino0 = ino
    /\ pc = [r \in Reqs |-> IF r \in active THEN "AwaitOpen" ELSE "off"]
    /\ result = [r \in Reqs |-> "none"]
    /\ rcvd = [r \in Reqs |-> <<>>]
    /\ perm = [r \in Reqs |-> 0]
    /\ dpath = [r \in Reqs |-> NoPath]
    /\ tpath = [r \in Reqs |-> NoPath]
    /\ fd = [r \in Reqs |-> NoFd]
    /\ hashed = [r \in Reqs |-> <<>>]
    /\ \E md \in mds : pmd = [r \in Reqs |-> IF r = 1 THEN md ELSE NoMetadata]
    /\ pdial = [r \in Reqs |-> {}]

\* The same, for streams without metadata.
PutInit(active, msgs, outcomes) == PutInitMd(active, msgs, outcomes, {NoMetadata})

PutIdle == PutInit({}, {}, {})

\* A TransferToRemote request is about to arrive; the source serves one of sources.
XferInit(outcomes, sources) ==
    /\ netOutcomes = outcomes
    /\ src \in sources
    /\ xpc = IF sources = {} THEN "off" ELSE "start"
    /\ xreq = NilRequest
    /\ xmd = NoMetadata
    /\ xhandler = "none"
    /\ xresult = "none"
    /\ xhash = NoDigest
    /\ xio = <<>>
    /\ srcPos = 0
    /\ buf = <<>>
    /\ rerr = "none"
    /\ phash = <<>>
    /\ reads = <<>>
    /\ sent = <<>>
    /\ sendClosed = FALSE
    /\ expired = FALSE
    /\ rcvIdx = 0
    /\ connErr = "none"

XferIdle ==
    /\ netOutcomes = {}
    /\ src = <<>>
    /\ xpc = "off"
    /\ xreq = NilRequest
    /\ xmd = NoMetadata
    /\ xhandler = "none"
    /\ xresult = "none"
    /\ xhash = NoDigest
    /\ xio = <<>>
    /\ srcPos = 0
    /\ buf = <<>>
    /\ rerr = "none"
    /\ phash = <<>>
    /\ reads = <<>>
    /\ sent = <<>>
    /\ sendClosed = FALSE
    /\ expired = FALSE
    /\ rcvIdx = 0
    /\ connErr = "none"

-----------------------------------------------------------------------------
(* Specification SpecPath: validatePath applied to every bounded string *)

InitPath ==
    /\ vpath \in SeqsUpTo(Tokens, MaxPathLen)
    /\ vresult = "none"
    /\ PutIdle
    /\ XferIdle
    /\ CacheIdle
    /\ MiscIdle

ValidatePathCall ==
    /\ vresult = "none"
    /\ vresult' = validatePath(vpath)
    /\ UNCHANGED <<vpath, putVars, xferVars, cacheVars, miscVars>>

NextPath == ValidatePathCall

SpecPath == InitPath /\ [][NextPath]_vars

-----------------------------------------------------------------------------
(* Specification SpecPut: one Put request, any client, any I/O failure *)

InitPut ==
    /\ PathIdle
    /\ XferIdle
    /\ CacheIdle
    /\ MiscIdle
    /\ PutInit({1}, OpenMsgsOf(PutPaths, {0, OtherMode}) \cup ContentMsgs \cup HashMsgs \cup OtherMsgs, BOOLEAN)

NextPut == \E r \in Reqs : HandlePut(r)

SpecPut == InitPut /\ [][NextPut]_vars

-----------------------------------------------------------------------------
(* Specification SpecPutLive: SpecPut, with a handler that goes on running: *)
(* a step it can take is taken, and Recv returns whenever the stream has    *)
(* something to deliver                                                     *)

SpecPutLive == InitPut /\ [][NextPut]_vars /\ WF_vars(HandlePut(1))

-----------------------------------------------------------------------------
(* Specification SpecPutMd: one Put request, any client, any I/O failure,  *)
(* any incoming metadata                                                   *)

InitPutMd ==
    /\ PathIdle
    /\ XferIdle
    /\ CacheIdle
    /\ MiscIdle
    /\ PutInitMd({1}, OpenMsgsOf(PutPaths, {0, OtherMode}) \cup ContentMsgs \cup HashMsgs \cup OtherMsgs,
                 BOOLEAN, Metadata)

SpecPutMd == InitPutMd /\ [][NextPut]_vars

-----------------------------------------------------------------------------
(* Specification SpecPut2: two concurrent Put requests to one destination *)

InitPut2 ==
    /\ PathIdle
    /\ XferIdle
    /\ CacheIdle
    /\ MiscIdle
    /\ PutInit({1, 2},
               OpenMsgsOf({<<"/", "tmp", "/", "a">>}, {0}) \cup ContentMsgs
                   \cup {m \in HashMsgs : m.hash <= Digest(<<1>>)} \cup {[kind |-> "EOF"]},
               {TRUE})

SpecPut2 == InitPut2 /\ [][NextPut]_vars

-----------------------------------------------------------------------------
(* Specification SpecPutApart: two concurrent Put requests, each to /tmp/a *)
(* or to /tmp/a.tmp                                                         *)

ApartPaths ==
    { <<"/", "tmp", "/", "a">>,
      <<"/", "tmp", "/", "a", ".", "tmp">> }

InitPutApart ==
    /\ PathIdle
    /\ XferIdle
    /\ CacheIdle
    /\ MiscIdle
    /\ PutInit({1, 2},
               OpenMsgsOf(ApartPaths, {0}) \cup {m \in ContentMsgs : m.data # <<0>>}
                   \cup {m \in HashMsgs : m.hash <= Digest(<<1>>)} \cup {[kind |-> "EOF"]},
               {TRUE})

SpecPutApart == InitPutApart /\ [][NextPut]_vars

-----------------------------------------------------------------------------
(* Specification SpecXfer: one TransferToRemote request, any metadata, any   *)
(* I/O failure; the DPU peer answers as it likes.                            *)

InitXfer ==
    /\ PathIdle
    /\ CacheIdle
    /\ MiscIdle
    /\ PutInit({}, {}, BOOLEAN)
    /\ XferInit(BOOLEAN, SeqsUpTo(Bytes, MaxFile))

NextXfer ==
    \/ \E req \in XferReqs, md \in Metadata : XferStart(req, md)
    \/ handleTransferToRemoteLocal
    \/ HandleTransferToRemoteForDPUStreaming

SpecXfer == InitXfer /\ [][NextXfer]_vars

-----------------------------------------------------------------------------
(* Specification SpecRelay: a DPU-routed TransferToRemote request whose Put  *)
(* stream is received by HandlePut on the DPU; the DPU's system calls succeed.*)

InitRelay ==
    /\ PathIdle
    /\ CacheIdle
    /\ MiscIdle
    /\ PutInit({1}, {}, {TRUE})
    /\ XferInit(BOOLEAN, SeqsUpTo(Bytes, MaxFile))

NextRelay ==
    \/ \E req \in XferReqs, md \in {x \in Metadata : IsDPURouted(x)} : XferStart(req, md)
    \/ HandleTransferToRemoteForDPUStreaming
    \/ PeerHandlePut

SpecRelay == InitRelay /\ [][NextRelay]_vars

-----------------------------------------------------------------------------
(* Specification SpecCache: three concurrent GetDPUConnection calls, any     *)
(* tables, the singleton replaced at any time.                               *)

\* No Put request runs and the filesystem is empty.
PutNone ==
    /\ mntHost = FALSE
    /\ clientMsgs = {}
    /\ ioOutcomes = {}
    /\ dir = << >>
    /\ ino = << >>
    /\ dir0 = dir
    /\ ino0 = ino
    /\ pc = [r \in Reqs |-> "off"]
    /\ result = [r \in Reqs |-> "none"]
    /\ rcvd = [r \in Reqs |-> <<>>]
    /\ perm = [r \in Reqs |-> 0]
    /\ dpath = [r \in Reqs |-> NoPath]
    /\ tpath = [r \in Reqs |-> NoPath]
    /\ fd = [r \in Reqs |-> NoFd]
    /\ hashed = [r \in Reqs |-> <<>>]
    /\ pmd = [r \in Reqs |-> NoMetadata]
    /\ pdial = [r \in Reqs |-> {}]

InitCache ==
    /\ PathIdle
    /\ PutNone
    /\ XferIdle
    /\ CacheInit(Callers)
    /\ MiscIdle

NextCache ==
    \/ GetDPUConnection
    \/ \E p \in {"nil", "noResolver", "proxy"} : SetDefaultProxy(p)

SpecCache == InitCache /\ [][NextCache]_vars

-----------------------------------------------------------------------------
(* Specification SpecFresh: SpecCache with a state table that changes while  *)
(* calls run and connections are cached.                                     *)

NextFresh ==
    \/ GetDPUConnection
    \/ \E p \in {"nil", "noResolver", "proxy"} : SetDefaultProxy(p)
    \/ \E d \in DPUs, row \in StateRows : SetStateRow(d, row)

SpecFresh == InitCache /\ [][NextFresh]_vars

-----------------------------------------------------------------------------
(* Specification SpecProxy: DPU-routed TransferToRemote requests one after   *)
(* the other, each taking its connection from the cache.                     *)

InitProxy ==
    /\ PathIdle
    /\ PutNone
    /\ MiscIdle
    /\ XferInit(BOOLEAN, SeqsUpTo(Bytes, MaxFile))
    /\ defaultProxy \in {"nil", "proxy"}
    /\ stateDB \in {f \in [DPUs -> StateRows] : ~f["1"].present}
    /\ configDB \in {f \in [DPUs -> ConfigRows] : f["1"] = "missing"}
    /\ conns = [d \in DPUs |-> NoConn]
    /\ dials = [d \in DPUs |-> 0]
    /\ connMu = [d \in DPUs |-> NoCaller]
    /\ gpc = [c \in Callers |-> IF c = ProxyCaller THEN "idle" ELSE "off"]
    /\ gid = [c \in Callers |-> "0"]
    /\ gsaw = [c \in Callers |-> "none"]
    /\ ginfo = [c \in Callers |-> "none"]
    /\ gconn = [c \in Callers |-> NoConn]
    /\ gerr = [c \in Callers |-> "none"]
    /\ gio = [c \in Callers |-> <<>>]

NextProxy ==
    \/ \E req \in XferReqs, md \in {x \in Metadata : IsDPURouted(x)} : XferStart(req, md)
    \/ XferStreamSteps
    \/ ProxyGetConn
    \/ XferReturn
    \/ XferNext

SpecProxy == InitProxy /\ [][NextProxy]_vars

-----------------------------------------------------------------------------
(* Specification SpecRemove: one Remove request on a device that holds some  *)
(* of the files it may name; os.Remove may fail.                             *)

\* No Put request runs.
PutOff ==
    /\ clientMsgs = {}
    /\ pc = [r \in Reqs |-> "off"]
    /\ result = [r \in Reqs |-> "none"]
    /\ rcvd = [r \in Reqs |-> <<>>]
    /\ perm = [r \in Reqs |-> 0]
    /\ dpath = [r \in Reqs |-> NoPath]
    /\ tpath = [r \in Reqs |-> NoPath]
    /\ fd = [r \in Reqs |-> NoFd]
    /\ hashed = [r \in Reqs |-> <<>>]
    /\ pmd = [r \in Reqs |-> NoMetadata]
    /\ pdial = [r \in Reqs |-> {}]

InitRemove ==
    /\ PathIdle
    /\ XferIdle
    /\ CacheIdle
    /\ AuthIdle
    /\ ConnIdle
    /\ PutOff
    /\ mntHost \in BOOLEAN
    /\ ioOutcomes = BOOLEAN
    /\ \E present \in SUBSET {p \in RmPaths : p # NoPath} :
          /\ dir = [p \in {translatePathForContainer(q) : q \in present} |-> 0]
          /\ ino = (0 :> [data |-> <<1>>, mode |-> DefaultMode])
    /\ dir0 = dir
    /\ ino0 = ino
    /\ rmpc = "start"
    /\ rmreq = [nil |-> TRUE, remoteFile |-> NoPath]
    /\ rmerr = "none"
    /\ rmresult = "none"
    /\ rmio = <<>>

NextRemove == \E req \in RmReqs, e \in Errnos \cup {"nil"} : HandleFileRemove(req, e)

SpecRemove == InitRemove /\ [][NextRemove]_vars

-----------------------------------------------------------------------------
(* Specification SpecParse: parseMethod applied to every method name made of *)
(* up to MaxParts parts separated by "/".                                    *)

MethodParts ==
    { <<>>,
      <<"gnoi", ".", "system", ".", "System">>,
      <<"gnoi", ".", "file", ".", "File">>,
      <<"gnoi", ".">>,
      <<"gnoi">>,
      <<"gnmi", ".", "gNMI">>,
      <<"grpc", ".", "reflection", ".", "v1alpha", ".", "ServerReflection">>,
      <<"grpc", ".", "health", ".", "v1", ".", "Health">>,
      <<"unknown", ".", "service">>,
      <<"SetPackage">>, <<"Reboot">>, <<"Time">>, <<"UnknownMethod">>,
      <<"Set">>, <<"Get">>, <<"Subscribe">>, <<"Capabilities">>, <<"Check">> }

MethodNames == {Join(parts) : parts \in SeqsUpTo(MethodParts, MaxParts) \ {<<>>}}

InitParse ==
    /\ PathIdle
    /\ PutNone
    /\ XferIdle
    /\ CacheIdle
    /\ RemoveIdle
    /\ ConnIdle
    /\ amethod \in MethodNames
    /\ aparsed = "none"
    /\ apeer = NoCert
    /\ apc = "parse"
    /\ acheck = NoCheck
    /\ ahandler = 0
    /\ aret = "none"

NextParse == ParseMethodCall

SpecParse == InitParse /\ [][NextParse]_vars

-----------------------------------------------------------------------------
(* Specification SpecAuth: one RPC through the unary or the stream           *)
(* interceptor, for every method of AuthMethods and every peer.              *)

AuthMethods ==
    {<<"/">> \o s \o <<"/">> \o m :
        s \in {<<"gnoi", ".", "system", ".", "System">>, <<"gnmi", ".", "gNMI">>,
               <<"unknown", ".", "service">>},
        m \in {<<"SetPackage">>, <<"Time">>, <<"Set">>, <<"Get">>}}
    \cup {<<"/", "grpc", ".", "reflection", ".", "v1alpha", ".", "ServerReflection", "/",
            "ServerReflectionInfo">>,
          <<"/", "grpc", ".", "health", ".", "v1", ".", "Health", "/", "Check">>}

Roles ==
    {<<s, "_", l>> : s \in {"gnoi", "gnmi"}, l \in {"readwrite", "readonly", "noaccess"}}
    \cup {<<"gnoi", "x", "_", "readwrite">>}

InitAuth ==
    /\ PathIdle
    /\ PutNone
    /\ XferIdle
    /\ CacheIdle
    /\ RemoveIdle
    /\ ConnIdle
    /\ amethod \in AuthMethods
    /\ aparsed = "none"
    /\ apeer \in {NoCert} \cup {Peer(roles) : roles \in SeqsUpTo(Roles, MaxRoles)}
    /\ apc = "start"
    /\ acheck = NoCheck
    /\ ahandler = 0
    /\ aret = "none"

NextAuth ==
    \/ \E herr \in HandlerErrors : AuthMiddleware(herr)
    \/ \E herr \in HandlerErrors : StreamAuthMiddleware(herr)

SpecAuth == InitAuth /\ [][NextAuth]_vars

-----------------------------------------------------------------------------
(* Observations used by the properties of HandlePut *)

NoFile == [data |-> <<>>, mode |-> 0]

\* What a reader of path p sees.
FileAt(d, i, p) == IF Exists(d, p) THEN i[d[p]] ELSE NoFile

Last(h) == h[Len(h)]

\* The bytes of the Contents messages of a received history, concatenated.
RECURSIVE ContentsOf(_)
ContentsOf(h) ==
    IF h = <<>> THEN <<>>
    ELSE IF Head(h).kind = "Contents" THEN Head(h).data \o ContentsOf(Tail(h))
    ELSE ContentsOf(Tail(h))

\* Open, Contents*, Hash
IsPutStream(h) ==
    /\ Len(h) >= 2
    /\ h[1].kind = "Open"
    /\ \A k \in 2..(Len(h) - 1) : h[k].kind = "Contents"
    /\ Last(h).kind = "Hash"

\* The stream of request r ended in a Hash that matches its Contents.
StreamVerified(r) ==
    /\ IsPutStream(rcvd[r])
    /\ Last(rcvd[r]).hash = Digest(ContentsOf(rcvd[r]))

-----------------------------------------------------------------------------
(* C1 *)

\* C1: in a Put request, the only paths whose file ever changes are the temp
\* path (destination + ".tmp") and the destination, and the destination
\* changes only in the rename step, after a Hash that equals the digest of all
\* Contents bytes received, to a file holding exactly those bytes.
C1_DestinationOnlyByVerifiedRename ==
    [][\A p \in (DOMAIN dir) \cup (DOMAIN dir') :
          FileAt(dir', ino', p) # FileAt(dir, ino, p) =>
              \/ p = tpath'[1]
              \/ /\ p = dpath[1]
                 /\ pc[1] = "Rename" /\ pc'[1] = "Ack"
                 /\ StreamVerified(1)
                 /\ FileAt(dir', ino', p).data = ContentsOf(rcvd[1])]_vars

C1_Witness ==
    /\ pc[1] = "Ack"
    /\ StreamVerified(1)
    /\ Len(ContentsOf(rcvd[1])) > 1
    /\ FileAt(dir, ino, dpath[1]).data = ContentsOf(rcvd[1])
    /\ FileAt(dir0, ino0, dpath[1]) # NoFile

-----------------------------------------------------------------------------
(* C2 *)

\* The stream of request r is Open, Contents*, Hash and the Hash differs from
\* the digest of the Contents bytes.
StreamCorrupted(r) ==
    /\ IsPutStream(rcvd[r])
    /\ Last(rcvd[r]).hash # Digest(ContentsOf(rcvd[r]))

-----------------------------------------------------------------------------
(* C7 *)

\* C7: when the first inbound message is not Open (Contents, Hash, or a message
\* with no field set) the request has failed with InvalidArgument, no temp file
\* was created and the filesystem is as it was.
C7_FirstMessageMustBeOpen ==
    (rcvd[1] # <<>> /\ rcvd[1][1].kind \in {"Contents", "Hash", "Unset"}) =>
        /\ pc[1] = "Failed" /\ result[1] = "InvalidArgument"
        /\ tpath[1] = NoPath /\ ~fd[1].open
        /\ dir = dir0 /\ ino = ino0

C7_Witness ==
    /\ rcvd[1] # <<>> /\ rcvd[1][1].kind = "Contents"
    /\ result[1] = "InvalidArgument"
    /\ dir0 # << >>

-----------------------------------------------------------------------------
(* C8 *)

-----------------------------------------------------------------------------
(* C9 *)

-----------------------------------------------------------------------------
(* C10 *)

\* C10: with two Put requests running against one destination, a file that
\* ends up at the destination holds exactly the bytes of one request's
\* digest-verified stream (each request's temp file being its own).
C10_DestinationHoldsOneVerifiedStream ==
    \A p \in DOMAIN dir :
        ((\E r \in Reqs : p = dpath[r]) /\ FileAt(dir, ino, p) # FileAt(dir0, ino0, p)) =>
            \E r \in Reqs :
                /\ p = dpath[r]
                /\ StreamVerified(r)
                /\ FileAt(dir, ino, p).data = ContentsOf(rcvd[r])

-----------------------------------------------------------------------------
(* C3 *)

\* C3: a TransferToRemote request whose destination is outside the allow-list
\* has failed without a single I/O call (no source stream, no DPU connection,
\* no upload stream, no file touched), whichever handler the metadata selects.
C3_RejectedBeforeAnyIO ==
    (xpc \notin {"off", "start"} /\ ~xreq.nil /\ validatePath(xreq.localPath) # "nil") =>
        /\ xresult # "OK"
        /\ xio = <<>>
        /\ sent = <<>>
        /\ dir = dir0 /\ ino = ino0

-----------------------------------------------------------------------------
(* C5 *)

IsPrefix(a, b) == Len(a) <= Len(b) /\ SubSeq(b, 1, Len(a)) = a

\* The proxy has sent its whole stream and the peer's HandlePut has returned
\* after receiving that stream and nothing else.
RelayedUnmodified ==
    /\ sendClosed
    /\ pc[1] \in {"Done", "Failed"}
    /\ IsPrefix(rcvd[1], sent)

\* C5: when the proxy's message stream is fed unmodified into HandlePut, for
\* every source byte sequence and chunking, the receiver reaches Done, the file
\* at the destination holds exactly the source bytes and the receiver's digest
\* equals the proxy's.
C5_RoundTrip ==
    RelayedUnmodified =>
        /\ pc[1] = "Done"
        /\ FileAt(dir, ino, dpath[1]).data = src
        /\ Digest(hashed[1]) = HashCalcSum(phash)

-----------------------------------------------------------------------------
(* C6 *)

\* The Contents messages of the chunks in cs, in order.
ContentReqs(cs) == [k \in 1..Len(cs) |-> [kind |-> "Contents", data |-> cs[k]]]

RECURSIVE Flatten(_)
Flatten(cs) == IF cs = <<>> THEN <<>> ELSE Head(cs) \o Flatten(Tail(cs))

\* C6: when the streaming proxy has succeeded, what it sent is one Open
\* (destination path, 0644), then one Contents per non-empty chunk read, in
\* source order and none empty, then one Hash; the send side is closed and the
\* peer's acknowledgement was awaited last.
C6_SendSequence ==
    (xhandler = "dpu" /\ xresult = "OK") =>
        /\ Len(sent) = Len(reads) + 2
        /\ sent[1] = OpenReq(xreq.localPath)
        /\ SubSeq(sent, 2, Len(sent) - 1) = ContentReqs(reads)
        /\ Last(sent).kind = "Hash"
        /\ \A k \in 1..Len(reads) : reads[k] # <<>>
        /\ Flatten(reads) = src
        /\ sendClosed
        /\ Last(xio) = "CloseAndRecv"

C6_Witness ==
    /\ xhandler = "dpu" /\ xresult = "OK"
    /\ Len(reads) > 1
    /\ \E k \in 1..Len(xio) - 1 : xio[k] = "Read" /\ xio[k + 1] = "Read"

-----------------------------------------------------------------------------
(* C11 *)

-----------------------------------------------------------------------------
(* C12 *)

GcRunning(c) == gpc[c] \in {"resolve", "lock", "dial"}

\* C12: a GetDPUConnection call is never blocked by calls for other DPU
\* identifiers: whenever every other running call (resolving, waiting or
\* dialing) is for an identifier different from A, a running call for A can
\* take its next step, whichever it is.
C12_OtherDPUsDoNotBlock ==
    \A a \in Callers :
        (/\ GcRunning(a)
         /\ \E b \in Callers : GcRunning(b) /\ gid[b] # gid[a]
         /\ \A b \in Callers \ {a} : GcRunning(b) => gid[b] # gid[a])
            => ENABLED (GcResolve(a) \/ GcLock(a) \/ GcDial(a))

\* A call for one identifier has dialed and returned while a call for another
\* identifier holds its lock for a dial.
C12_Witness ==
    \E a, b \in Callers :
        /\ gid[a] # gid[b]
        /\ gpc[b] = "dial"
        /\ gpc[a] = "done" /\ gerr[a] = "nil" /\ gio[a] = <<"Resolve", "Dial">>

-----------------------------------------------------------------------------
(* C13 *)

\* C13: a GetDPUConnection call that finds no instance installed returns no
\* connection and "DPU proxy not initialized"; one that finds an instance
\* without a resolver returns no connection and "resolver not available";
\* neither resolves nor dials.
C13_SingletonFailsLoudly ==
    \A c \in Callers :
        /\ gsaw[c] = "nil" =>
              /\ gpc[c] = "done"
              /\ gerr[c] = "DPU proxy not initialized"
              /\ gconn[c] = NoConn
              /\ gio[c] = <<>>
        /\ gsaw[c] = "noResolver" =>
              /\ gpc[c] = "done"
              /\ gerr[c] = "resolver not available"
              /\ gconn[c] = NoConn
              /\ gio[c] = <<>>

\* One call found no instance, one an instance without resolver, and one went
\* through the installed proxy and got a connection.
C13_Witness ==
    \E a, b, c \in Callers :
        /\ gerr[a] = "DPU proxy not initialized"
        /\ gerr[b] = "resolver not available"
        /\ gsaw[c] = "proxy" /\ gpc[c] = "done" /\ gconn[c] # NoConn

-----------------------------------------------------------------------------
(* C14 *)

\* C14: when the resolution of a GetDPUConnection call fails, the call returns
\* no connection, with Unavailable when the resolver found the endpoint
\* unreachable and Internal for every other failure; it performs no dial and
\* the cache is left as it was.
C14_ResolveFailureNoDial ==
    [][\A c \in Callers :
          (gpc[c] = "resolve" /\ gpc'[c] = "done") =>
              /\ gconn'[c] = NoConn
              /\ gerr'[c] = IF ginfo'[c] = "Unavailable" THEN "Unavailable" ELSE "Internal"
              /\ gio'[c] = <<"Resolve">>
              /\ conns' = conns
              /\ dials' = dials]_vars

\* One call failed on an unreachable DPU, another on a DPU absent from the
\* state table; nothing was dialed or cached.
C14_Witness ==
    \E a, b \in Callers :
        /\ gpc[a] = "done" /\ ginfo[a] = "Unavailable" /\ gerr[a] = "Unavailable"
        /\ gpc[b] = "done" /\ ginfo[b] = "NotFound" /\ gerr[b] = "Internal"
        /\ \A d \in DPUs : conns[d] = NoConn /\ dials[d] = 0

-----------------------------------------------------------------------------
(* C15 *)

\* C15: the resolver answers not-found for an identifier without a state
\* entry, unavailable for one whose entry marks it down (whatever its
\* configuration), and internal for a reachable one whose configuration is
\* missing or malformed.
C15_ResolveClasses ==
    \A c \in Callers :
        ginfo[c] # "none" =>
            LET st == stateDB[gid[c]]
                cfg == configDB[gid[c]]
            IN  /\ ~st.present => ginfo[c] = "NotFound"
                /\ (st.present /\ st.access = "False") => ginfo[c] = "Unavailable"
                /\ (st.present /\ st.access = "True" /\ cfg \in {"missing", "malformed"}) =>
                       ginfo[c] = "Internal"

\* The resolver has answered unavailable for a down DPU without configuration
\* and internal for a reachable DPU with malformed configuration.
C15_Witness ==
    \E a, b \in Callers :
        /\ ginfo[a] = "Unavailable" /\ configDB[gid[a]] = "missing"
        /\ ginfo[b] = "Internal" /\ configDB[gid[b]] = "malformed"

-----------------------------------------------------------------------------
(* C16 *)

\* C16: when a DPU-routed TransferToRemote gets the availability-class error
\* (peer unreachable) from the connection cache, the RPC fails with Unavailable.
C16_UnreachableIsUnavailable ==
    (xhandler = "dpu" /\ connErr = "Unavailable") => xresult = "Unavailable"

-----------------------------------------------------------------------------
(* C17 *)

\* C17: once the deadline of a streaming-proxy call has expired, wherever in
\* the read/send loop or before the final hash this happens, the call makes no
\* further read from the source and no further send to the peer (Contents or
\* Hash), and the status it returns is DeadlineExceeded.
C17_NoIOAfterDeadline ==
    [][(xhandler = "dpu" /\ expired /\ xpc \in {"Loop", "Send", "SendHash"}) =>
          /\ xio' = xio
          /\ xresult' # "none" => xresult' = "DeadlineExceeded"]_vars

-----------------------------------------------------------------------------
(* C4 *)

\* What the path rules ask for, stated on elements: absolute, no ".." element
\* left by normalization, normalized form under an allow-listed directory.
HasParentSegment(s) == \E i \in DOMAIN Split(s) : Split(s)[i] = DotDot

SpecAccepts(path) ==
    /\ IsAbs(path)
    /\ ~HasParentSegment(Clean(path))
    /\ \/ HasPrefix(Clean(path), <<"/", "tmp", "/">>)
       \/ HasPrefix(Clean(path), <<"/", "var", "/", "tmp", "/">>)

\* C4: validatePath accepts a path if and only if it is absolute, has no
\* parent-traversal segment after normalization and its normalized form lies
\* under /tmp/ or /var/tmp/ (file names that merely contain ".." included).
C4_AcceptsExactlyAllowListed ==
    vresult # "none" => ((vresult = "nil") <=> SpecAccepts(vpath))

-----------------------------------------------------------------------------
(* C18 *)

LocalCalls == {"DownloadHTTP", "CalculateMD5", "Remove"}
StreamingCalls == {"DownloadHTTPStreaming", "GetDPUConnection", "Put", "Send", "Read",
                   "CloseAndRecv"}

\* C18: HandleTransferToRemote runs the streaming proxy exactly when the
\* metadata carries target-type "dpu" and a non-empty target-index, and the
\* local handler in every other case; the calls made are those of that one
\* handler.
C18_RoutesToExactlyOneHandler ==
    xhandler # "none" =>
        LET toDPU == xmd.present /\ xmd.type = "dpu" /\ xmd.index # ""
        IN  /\ xhandler = IF toDPU THEN "dpu" ELSE "local"
            /\ \A k \in DOMAIN xio :
                  xio[k] \in IF toDPU THEN StreamingCalls ELSE LocalCalls

\* A request with target-type "dpu" but an empty target-index was served by
\* the local handler.
C18_Witness ==
    /\ xmd.present /\ xmd.type = "dpu" /\ xmd.index = ""
    /\ xhandler = "local"
    /\ xresult = "OK"
    /\ xio = <<"DownloadHTTP", "CalculateMD5">>

-----------------------------------------------------------------------------
(* C19 *)

\* C19: the local handler rejects a nil request, a nil source descriptor, an
\* empty destination, a destination outside the allow-list and (with HTTP) an
\* empty URL with InvalidArgument, and any other protocol with Unimplemented;
\* on each of these it starts no download and leaves every file as it was.
C19_LocalChecksBeforeDownload ==
    xhandler = "local" =>
        LET badShape == xreq.nil \/ ~xreq.hasDownload \/ xreq.localPath = NoPath
            outside == ~SpecAccepts(xreq.localPath)
            otherProtocol == xreq.protocol # "HTTP"
            noUrl == xreq.url = NoUrl
        IN  /\ (badShape \/ outside) => xresult = "InvalidArgument"
            /\ (~badShape /\ ~outside /\ otherProtocol) => xresult = "Unimplemented"
            /\ (~badShape /\ ~outside /\ ~otherProtocol /\ noUrl) => xresult = "InvalidArgument"
            /\ (badShape \/ outside \/ otherProtocol \/ noUrl) =>
                   /\ xpc = "failed"
                   /\ xio = <<>>
                   /\ dir = dir0
                   /\ ino = ino0

\* A well-formed HTTP request for a destination outside the allow-list was
\* rejected by the local handler.
C19_Witness ==
    /\ xhandler = "local"
    /\ ~xreq.nil /\ xreq.hasDownload /\ xreq.protocol = "HTTP" /\ xreq.url = SomeUrl
    /\ xreq.localPath = <<"/", "etc", "/", "passwd">>
    /\ xresult = "InvalidArgument"

-----------------------------------------------------------------------------
(* C20 *)

\* The destination as the device sees it: under /mnt/host in a container.
ContainerPath(path) == IF mntHost THEN <<"/", "mnt", "/", "host">> \o path ELSE path

\* C20: a well-formed HTTP request for /tmp/a handled locally fails only when
\* the download or the hashing fails; when it returns, it succeeds, the digest
\* in the response is the digest of the bytes the source serves, and the file
\* at the translated destination exists with exactly those bytes.
C20_LocalTransferDigestAndFile ==
    (/\ xhandler = "local"
     /\ ~xreq.nil /\ xreq.hasDownload /\ xreq.protocol = "HTTP" /\ xreq.url = SomeUrl
     /\ xreq.localPath = <<"/", "tmp", "/", "a">>) =>
        /\ xresult \in {"none", "OK", "Internal"}
        /\ xpc = "done" =>
              /\ xresult = "OK"
              /\ xhash = Digest(src)
              /\ Exists(dir, ContainerPath(xreq.localPath))
              /\ FileAt(dir, ino, ContainerPath(xreq.localPath)).data = src

\* A request without routing metadata has fetched a source of MaxFile bytes
\* into a container's /mnt/host/tmp/a, over a file that was there before.
C20_Witness ==
    /\ xhandler = "local" /\ ~xmd.present
    /\ xpc = "done"
    /\ mntHost
    /\ Len(src) = MaxFile
    /\ dir0 # << >>

-----------------------------------------------------------------------------
(* C21 *)

\* C21: a TransferToRemote request served by the streaming proxy leaves the
\* local filesystem as it was, at every point of the call and on every return
\* path; when it succeeds the digest in the response is the digest of the
\* bytes the source serves.
C21_ProxyLeavesLocalFilesAlone ==
    xhandler = "dpu" =>
        /\ dir = dir0
        /\ ino = ino0
        /\ xresult = "OK" => xhash = Digest(src)

\* A proxied transfer of MaxFile bytes has succeeded on a device that
\* holds a file.
C21_Witness ==
    /\ xhandler = "dpu"
    /\ xresult = "OK"
    /\ Len(src) = MaxFile
    /\ Len(reads) > 1
    /\ dir # << >>

-----------------------------------------------------------------------------
(* C27 *)

\* The Contents bytes of a sequence of sent messages, concatenated.
RECURSIVE SentBytes(_)
SentBytes(h) ==
    IF h = <<>> THEN <<>>
    ELSE SentBytes(SubSeq(h, 1, Len(h) - 1))
         \o (IF Last(h).kind = "Contents" THEN Last(h).data ELSE <<>>)

\* C27: every Hash message the proxy sends carries the digest of the
\* concatenation of the bytes of the Contents messages sent before it, however
\* the source splits its data into reads, and the digest in a successful
\* response is the one the Hash message carried.
C27_HashCoversBytesSent ==
    xhandler = "dpu" =>
        /\ \A k \in DOMAIN sent :
              sent[k].kind = "Hash" => sent[k].hash = Digest(SentBytes(SubSeq(sent, 1, k - 1)))
        /\ xresult = "OK" => Last(sent).kind = "Hash" /\ xhash = Last(sent).hash

\* The last read returned bytes together with end-of-input, after an earlier
\* read, and the transfer succeeded.
C27_Witness ==
    /\ xhandler = "dpu"
    /\ xresult = "OK"
    /\ Len(reads) > 1
    /\ rerr = "EOF" /\ buf # <<>>

-----------------------------------------------------------------------------
(* C22 *)

\* C22: Remove fails with invalid-argument for a nil request or an empty path
\* and with permission-denied for a path that fails validation, in both cases
\* without calling os.Remove or changing the filesystem; for a validated path
\* a missing file gives not-found, a permission error of the filesystem gives
\* permission-denied, every other failure gives internal, and success removes
\* the file.
C22_RemoveClassifiesFailures ==
    rmpc = "done" =>
        IF rmreq.nil \/ rmreq.remoteFile = NoPath
        THEN rmresult = "InvalidArgument" /\ rmio = <<>> /\ dir = dir0
        ELSE IF validatePath(rmreq.remoteFile) # "nil"
        THEN rmresult = "PermissionDenied" /\ rmio = <<>> /\ dir = dir0
        ELSE /\ rmio = <<translatePathForContainer(rmreq.remoteFile)>>
             /\ rmerr = "ENOENT" => rmresult = "NotFound" /\ dir = dir0
             /\ rmerr \in {"EACCES", "EPERM"} => rmresult = "PermissionDenied" /\ dir = dir0
             /\ rmerr = "EROFS" => rmresult = "Internal" /\ dir = dir0
             /\ rmerr = "nil" => rmresult = "OK" /\ dir = Unlink(dir0, rmio[1])

-----------------------------------------------------------------------------
(* C25 *)

\* The gNOI "service.Method" names the documentation lists as write methods.
C25_WriteTable ==
    {<<"system", ".", m>> : m \in {"SetPackage", "Reboot", "KillProcess",
                                   "SwitchControlProcessor", "CancelReboot"}}

C25_IsSystemService(name) ==
    \/ Contains(name, <<"grpc", ".", "reflection">>)
    \/ Contains(name, <<"grpc", ".", "health">>)

\* The classification of a name whose service is svc and whose method is
\* meth; wellFormed says whether the name has that shape at all.
C25_Expected(name, wellFormed, svc, meth) ==
    IF C25_IsSystemService(name) THEN Parsed("", FALSE)
    ELSE IF wellFormed /\ HasPrefix(svc, <<"gnoi", ".">>)
    THEN Parsed("gnoi", \E k \in C25_WriteTable :
                            SplitOn(svc, ".")[2] = <<k[1]>> /\ meth = <<k[3]>>)
    ELSE IF wellFormed /\ svc = <<"gnmi", ".", "gNMI">>
    THEN Parsed("gnmi", meth = <<"Set">>)
    ELSE Parsed("unknown", FALSE)

C25_Part(name, i) ==
    LET parts == SplitOn(name, "/") IN IF i <= Len(parts) THEN parts[i] ELSE <<>>

\* C25 (as stated): reflection and health names give ("", false); a name of
\* the form "/service/method" is classified by its service and method (gNOI
\* write table, gNOI otherwise, gNMI Set, gNMI otherwise); every other name,
\* malformed ones included, gives ("unknown", false).
C25_ParseMethodTable ==
    apc = "parsed" =>
        aparsed = C25_Expected(amethod,
                               Len(SplitOn(amethod, "/")) = 3 /\ C25_Part(amethod, 1) = <<>>,
                               C25_Part(amethod, 2), C25_Part(amethod, 3))

\* C25 (amended): a name containing "grpc.reflection" or "grpc.health" gives
\* ("", false); a name with fewer than three "/"-separated parts gives
\* ("unknown", false); every other name is classified by its second and third
\* part alone, whatever stands before or after them.
C25_ParseMethodByParts ==
    apc = "parsed" =>
        aparsed = C25_Expected(amethod, Len(SplitOn(amethod, "/")) >= 3,
                               C25_Part(amethod, 2), C25_Part(amethod, 3))

C25_Witness ==
    /\ apc = "parsed"
    /\ aparsed = Parsed("gnoi", TRUE)
    /\ C25_Part(amethod, 1) # <<>>
    /\ C25_Part(amethod, 3) = <<"Reboot">>

-----------------------------------------------------------------------------
(* C24 *)

C24_Skipped ==
    \/ Contains(amethod, <<"grpc", ".", "reflection">>)
    \/ Contains(amethod, <<"grpc", ".", "health">>)

\* C24: after either interceptor has run, the handler was invoked (once) if
\* and only if the method is a reflection or health method, for which
\* CheckAccess is not called, or CheckAccess returned no error; when
\* CheckAccess returned an error the handler was not invoked and the
\* interceptor returned that very error; otherwise it returned what the
\* handler returned.
C24_HandlerIffAuthorized ==
    apc \in {"unary", "stream"} =>
        /\ ahandler \in {0, 1}
        /\ ahandler = 1 <=> (C24_Skipped \/ (acheck.called /\ acheck.err = NoError))
        /\ C24_Skipped => ~acheck.called
        /\ ~C24_Skipped => acheck.called
        /\ (acheck.called /\ acheck.err # NoError) => ahandler = 0 /\ aret = acheck.err
        /\ ahandler = 1 => aret \in HandlerErrors

C24_Witness ==
    /\ apc = "stream"
    /\ acheck.called
    /\ acheck.err.code = "PermissionDenied"
    /\ ahandler = 0
    /\ aret = acheck.err

-----------------------------------------------------------------------------
(* C26 *)

C26_Role(level) == <<acheck.service, "_", level>>

\* The positions of the roles that are roles for the requested service.
C26_RolesFor ==
    {i \in DOMAIN apeer.roles :
        \E l \in {"readwrite", "readonly", "noaccess"} : apeer.roles[i] = C26_Role(l)}

C26_Checked == apc \in {"unary", "stream"} /\ acheck.called /\ apeer.cert

C26_OnlyReadonly ==
    (C26_RolesFor # {} /\ \A i \in C26_RolesFor : apeer.roles[i] = C26_Role("readonly"))
        => (acheck.err = NoError <=> ~acheck.writeAccess)

C26_NoRoleForService ==
    (apeer.roles # <<>> /\ C26_RolesFor = {}) => acheck.err.code = "PermissionDenied"

\* C26 (as stated): a client holding {service}_readwrite is granted read and
\* write requests; a client whose only role for the service is
\* {service}_readonly is granted reads and denied writes; a client with roles
\* but none for the requested service is denied with permission-denied.
C26_RolesGrant ==
    C26_Checked =>
        /\ (\E i \in DOMAIN apeer.roles : apeer.roles[i] = C26_Role("readwrite"))
              => acheck.err = NoError
        /\ C26_OnlyReadonly
        /\ C26_NoRoleForService

\* C26 (amended): a client holding {service}_readwrite and no
\* {service}_noaccess role is granted read and write requests; the other two
\* cases are as stated.
C26_RolesGrantWithoutNoaccess ==
    C26_Checked =>
        /\ (/\ \E i \in DOMAIN apeer.roles : apeer.roles[i] = C26_Role("readwrite")
            /\ \A j \in DOMAIN apeer.roles : apeer.roles[j] # C26_Role("noaccess"))
              => acheck.err = NoError
        /\ C26_OnlyReadonly
        /\ C26_NoRoleForService

C26_Witness ==
    /\ C26_Checked
    /\ acheck.writeAccess
    /\ acheck.err = NoError
    /\ apeer.roles = <<C26_Role("readonly"), C26_Role("readwrite")>>

-----------------------------------------------------------------------------
(* C23 *)

\* C23: whatever the return path of the streaming proxy, closing the
\* connection is not among the calls it makes when it returns, no connection
\* of the cache has been closed, no identifier is ever dialled a second time,
\* and the connection a returned transfer worked with is the one the cache
\* holds for its identifier.
C23_ProxyNeverClosesConn ==
    /\ closedConns = {}
    /\ \A i \in DOMAIN xclosed : xclosed[i] # "conn.Close"
    /\ \A d \in DPUs : dials[d] <= 1
    /\ (xpc = "returned" /\ connErr = "nil") =>
          /\ gconn[ProxyCaller] # NoConn
          /\ conns[xmd.index] = gconn[ProxyCaller]

\* A transfer that took its connection from the cache without dialling and
\* failed after streaming began has returned.
C23_Witness ==
    /\ xpc = "returned"
    /\ connErr = "nil"
    /\ xresult = "Internal"
    /\ sent # <<>>
    /\ dials["0"] = 1
    /\ gio[ProxyCaller] = <<"Resolve">>
    /\ xclosed = <<"httpStream.Close", "cancel">>

-----------------------------------------------------------------------------
(* C28 *)

\* The permission bits the Open message of request 1 asks for.
C28_Bits == IF rcvd[1][1].perm = 0 THEN DefaultMode ELSE rcvd[1][1].perm

C28_DestinationUntouched == FileAt(dir, ino, dpath[1]) = FileAt(dir0, ino0, dpath[1])

C28_Installed ==
    /\ FileAt(dir, ino, dpath[1]) = [data |-> ContentsOf(rcvd[1]), mode |-> C28_Bits]
    /\ ~Exists(dir, tpath[1])

\* Where the request stands tells which steps are behind it.
C28_Steps ==
    /\ pc[1] \in {"Close", "Chmod", "Rename", "Ack", "Done"} => StreamVerified(1)
    /\ pc[1] = "Close" => result[1] = "none" /\ C28_DestinationUntouched
    /\ pc[1] = "Chmod" => result[1] = "none" /\ ~fd[1].open /\ C28_DestinationUntouched
    /\ pc[1] = "Rename" =>
          /\ result[1] = "none" /\ ~fd[1].open /\ C28_DestinationUntouched
          /\ FileAt(dir, ino, tpath[1]) = [data |-> ContentsOf(rcvd[1]), mode |-> C28_Bits]
    /\ pc[1] = "Ack" => result[1] = "none" /\ C28_Installed
    /\ pc[1] = "Done" => result[1] = "OK" /\ C28_Installed
    /\ result[1] = "OK" => pc[1] = "Done"
    /\ ~C28_DestinationUntouched => FileAt(dir, ino, dpath[1]).mode = C28_Bits

\* The steps follow one another, and a failing one ends the request.
C28_StepOrder ==
    /\ pc'[1] = "Close" => pc[1] \in {"Receiving", "Close"}
    /\ pc'[1] = "Chmod" => pc[1] \in {"Close", "Chmod"}
    /\ pc'[1] = "Rename" => pc[1] \in {"Chmod", "Rename"}
    /\ pc'[1] = "Ack" => pc[1] \in {"Rename", "Ack"}
    /\ pc'[1] = "Done" => pc[1] \in {"Ack", "Done"}
    /\ (pc[1] \in {"Close", "Chmod", "Rename"} /\ pc'[1] = "Failed") =>
          /\ result'[1] = "Internal"
          /\ FileAt(dir', ino', dpath[1]) = FileAt(dir0, ino0, dpath[1])

\* C28: on the success path the digest is verified, then the temp file is
\* closed, then the permission bits of Open (0644 when it carried none) are
\* set on the temp file, then the temp file is renamed onto the destination,
\* then success is acknowledged; a file that appears at the destination has
\* its final bits at once, and a failing close, chmod or rename ends the
\* request with Internal, never with a success acknowledgement.
C28_SuccessPathInOrder == []C28_Steps /\ [][C28_StepOrder]_vars

C28_Witness ==
    /\ pc[1] = "Done"
    /\ rcvd[1][1].perm = OtherMode
    /\ FileAt(dir, ino, dpath[1]).mode = OtherMode
    /\ FileAt(dir0, ino0, dpath[1]).mode = DefaultMode
    /\ ContentsOf(rcvd[1]) # <<>>

-----------------------------------------------------------------------------
(* C29 *)

-----------------------------------------------------------------------------
(* C30 *)

\* The path is empty or lies outside /tmp/ and /var/tmp/.
C30_BadPath(p) ==
    \/ p = NoPath
    \/ /\ ~HasPrefix(Clean(p), <<"/", "tmp", "/">>)
       /\ ~HasPrefix(Clean(p), <<"/", "var", "/", "tmp", "/">>)

\* C30: after an Open whose path is empty or not allowed the request has
\* failed with InvalidArgument without receiving anything more, no temp path
\* was chosen, no file is open, and directory and files are as they were.
C30_BadOpenPathRejectedBeforeCreate ==
    (rcvd[1] # <<>> /\ rcvd[1][1].kind = "Open" /\ C30_BadPath(rcvd[1][1].path)) =>
        /\ Len(rcvd[1]) = 1
        /\ pc[1] = "Failed" /\ result[1] = "InvalidArgument"
        /\ tpath[1] = NoPath /\ dpath[1] = NoPath /\ ~fd[1].open
        /\ dir = dir0 /\ ino = ino0

C30_Witness ==
    /\ rcvd[1] # <<>> /\ rcvd[1][1].kind = "Open"
    /\ rcvd[1][1].path = <<"/", "etc", "/", "passwd">>
    /\ result[1] = "InvalidArgument"
    /\ dir0 # << >>

-----------------------------------------------------------------------------
(* C31 *)

\* The calls of a sequence of calls, as a set.
CallsOf(io) == {io[k] : k \in DOMAIN io}

-----------------------------------------------------------------------------
(* C32 *)

-----------------------------------------------------------------------------
(* C33 *)

\* The Contents messages among the messages sent, in order.
RECURSIVE ContentsSent(_)
ContentsSent(h) ==
    IF h = <<>> THEN <<>>
    ELSE IF Head(h).kind = "Contents" THEN <<Head(h).data>> \o ContentsSent(Tail(h))
    ELSE ContentsSent(Tail(h))

\* C33: the streaming proxy's buffer never holds more than one chunk of at
\* most MaxChunk bytes (the model's 64 KiB); no Contents message carries more;
\* the chunks sent are the chunks read, in order, with at most the last chunk
\* read not yet sent; and whenever the proxy is about to read, every chunk
\* read so far has been sent.
C33_OneChunkInFlight ==
    xhandler = "dpu" =>
        LET chunks == ContentsSent(sent)
        IN  /\ Len(buf) <= MaxChunk
            /\ \A k \in DOMAIN chunks : Len(chunks[k]) <= MaxChunk
            /\ Len(chunks) <= Len(reads)
            /\ Len(reads) <= Len(chunks) + 1
            /\ \A k \in DOMAIN chunks : chunks[k] = reads[k]
            /\ xpc = "Loop" => Len(chunks) = Len(reads)

\* Two chunks have been read and sent and the proxy is about to read again.
C33_Witness ==
    /\ xhandler = "dpu"
    /\ xpc = "Loop"
    /\ Len(reads) = MaxFile
    /\ Len(ContentsSent(sent)) = MaxFile
    /\ srcPos = Len(src)

-----------------------------------------------------------------------------
(* C34 *)

\* C34: a client whose role list holds {service}_noaccess, at any position and
\* beside any other roles, is denied every request to that service with
\* permission-denied.
C34_NoaccessAlwaysDenies ==
    (C26_Checked /\ \E i \in DOMAIN apeer.roles : apeer.roles[i] = C26_Role("noaccess")) =>
        acheck.err.code = "PermissionDenied"

-----------------------------------------------------------------------------
(* C35 *)

\* C35: when HandlePut has returned an error, the file at the destination
\* path is the one that was there before the request (none, if none was).
C35_ErrorLeavesDestination ==
    (pc[1] = "Failed" /\ result[1] # "OK") =>
        FileAt(dir, ino, dpath[1]) = FileAt(dir0, ino0, dpath[1])

-----------------------------------------------------------------------------
(* C36 *)

C36_Old == FileAt(dir0, ino0, dpath[1])

C36_New == [data |-> ContentsOf(rcvd[1]), mode |-> EffectivePermissions(rcvd[1][1].perm)]

\* What a reader of the destination can see, and when.
C36_OldOrNew ==
    /\ \/ FileAt(dir, ino, dpath[1]) = C36_Old
       \/ /\ pc[1] \in {"Ack", "Done", "Failed"}
          /\ StreamVerified(1)
          /\ FileAt(dir, ino, dpath[1]) = C36_New
    /\ \A i \in DOMAIN ino0 : ino[i] = ino0[i]
    /\ (pc[1] = "Failed" /\ result[1] \in {"InvalidArgument", "Internal", "DataLoss", "Canceled"})
          => FileAt(dir, ino, dpath[1]) = C36_Old

\* The destination changes in the rename step and in no other.
C36_OneStep ==
    FileAt(dir', ino', dpath'[1]) # FileAt(dir, ino, dpath'[1]) =>
        /\ pc[1] = "Rename" /\ pc'[1] = "Ack"
        /\ FileAt(dir, ino, dpath[1]) = C36_Old
        /\ FileAt(dir', ino', dpath[1]) = C36_New

\* C36: a Put request that fails before the rename leaves the file that was at
\* the destination with its content and permission bits; a successful one
\* replaces it in the single rename step; at every moment the destination
\* shows the old file or the complete new one, and the old file's bytes are
\* never written to.
C36_OldFileOrNewFile == []C36_OldOrNew /\ [][C36_OneStep]_vars

\* A request that overwrites an existing file passed the digest check and then
\* failed in close, chmod or rename.
C36_Witness ==
    /\ pc[1] = "Failed" /\ result[1] = "Internal"
    /\ StreamVerified(1)
    /\ rcvd[1][1].perm = OtherMode
    /\ C36_Old # NoFile
    /\ FileAt(dir, ino, dpath[1]) = C36_Old

-----------------------------------------------------------------------------
(* C37 *)

\* The step appends a Hash message to the messages sent.
C37_SendsHash == Len(sent') = Len(sent) + 1 /\ Last(sent').kind = "Hash"

\* The peer has accepted a Hash: it is finalizing or has finished.
C37_PeerVerified == pc[1] \in {"Close", "Chmod", "Rename", "Ack", "Done"}

\* C37: the proxy sends a Hash only when the deadline has not expired, the
\* last read returned end-of-input and the Contents sent so far are all the
\* bytes of the source; after a read failure no Hash has been sent; and a peer
\* HandlePut that got past its digest check has received the whole source, so
\* that the file it installs is the whole source.
C37_HashOnlyAfterCompleteStream ==
    /\ [][C37_SendsHash =>
             /\ ~expired
             /\ rerr = "EOF"
             /\ srcPos = Len(src)
             /\ SentBytes(sent) = src]_vars
    /\ [](rerr = "ReadErr" => \A k \in DOMAIN sent : sent[k].kind # "Hash")
    /\ [](C37_PeerVerified =>
             /\ \E k \in DOMAIN sent : sent[k].kind = "Hash"
             /\ ContentsOf(rcvd[1]) = src
             /\ pc[1] \in {"Ack", "Done"} => FileAt(dir, ino, dpath[1]).data = src)

-----------------------------------------------------------------------------
(* C38 *)

\* Both requests have opened their temp files, for different destinations.
C38_Apart == dpath[1] # NoPath /\ dpath[2] # NoPath /\ dpath[1] # dpath[2]

\* C38: of two concurrent Put requests with different destinations, on a
\* device where no system call fails, each ends as it would alone: it fails
\* with Internal only on a receive error, and when it has renamed its file the
\* destination holds the bytes it received with the bits it asked for.
C38_DifferentDestinationsDoNotInterfere ==
    C38_Apart =>
        \A r \in Reqs :
            /\ (pc[r] = "Failed" /\ result[r] = "Internal") =>
                  Last(rcvd[r]).kind = "RecvErr"
            /\ pc[r] \in {"Ack", "Done"} =>
                  FileAt(dir, ino, dpath[r]) = [data |-> ContentsOf(rcvd[r]), mode |-> perm[r]]

-----------------------------------------------------------------------------
(* C39 *)

\* The stream's metadata names a DPU target.
C39_NamesDpu == pmd[1].present /\ pmd[1].type = "dpu" /\ pmd[1].index # ""

\* C39: whatever metadata the context of a Put stream carries, each step the
\* handler takes from its entry is a step it takes from the same state for
\* the same stream without metadata, with the same status code and the same
\* effect on the files, and it never asks for a connection to a DPU.
C39_MetadataChangesNothing ==
    /\ [][\A r \in Reqs :
            (pc[r] = "AwaitOpen" /\ pc'[r] # "AwaitOpen") =>
                \E m \in clientMsgs, ok \in ioOutcomes :
                    /\ PutEnter(r, NoMetadata, m, ok)
                    /\ UNCHANGED cacheVars]_vars
    /\ [](\A r \in Reqs : pdial[r] = {})

\* A stream with DPU routing metadata was verified and installed on the
\* local filesystem.
C39_Witness ==
    /\ C39_NamesDpu
    /\ pc[1] = "Done" /\ result[1] = "OK"
    /\ Len(ContentsOf(rcvd[1])) > 0
    /\ FileAt(dir, ino, dpath[1]).data = ContentsOf(rcvd[1])
    /\ pdial[1] = {}

-----------------------------------------------------------------------------
(* C40 *)

\* What Recv has returned so far: an Open only as the first message, and
\* nothing after a Hash, an error or a message the handler does not know.
C40_ReadsToFirstEnd ==
    /\ \A k \in DOMAIN rcvd[1] :
          k < Len(rcvd[1]) =>
              /\ rcvd[1][k].kind \in {"Open", "Contents"}
              /\ rcvd[1][k].kind = "Open" => k = 1
    /\ (Len(rcvd[1]) > 1 /\ Last(rcvd[1]).kind # "Contents") =>
          pc[1] \notin {"AwaitOpen", "Receiving"}
    /\ pc[1] \in {"Close", "Chmod", "Rename", "Ack", "Done"} =>
          Last(rcvd[1]).kind = "Hash"

\* C40: a Put request on a stream that delivers a Hash, an end-of-input or a
\* receive error ends in Done or Failed and stays there; the handler accepts
\* one Open, the first message, and reads nothing after the first Hash, error
\* or unknown message.
C40_PutTerminates ==
    /\ []C40_ReadsToFirstEnd
    /\ (pc[1] = "AwaitOpen") ~> (pc[1] \in {"Done", "Failed"})
    /\ <>[](pc[1] \in {"Done", "Failed"})

\* A stream of Open, two Contents and the matching Hash has ended in Done.
C40_Witness ==
    /\ pc[1] = "Done"
    /\ Len(rcvd[1]) = 4
    /\ Last(rcvd[1]).kind = "Hash"

====
